---- MODULE Spec2Model ----
(***************************************************************************)
(* Lost & Found matching back end: the candidate filter, the match         *)
(* orchestrator with its AI-backed and fallback scoring paths, the         *)
(* per-user notification cooldown, and the upload handler that ties them   *)
(* together.                                                               *)
(*                                                                         *)
(* Scores are kept in thousandths of a point (55 points = 55000) so that   *)
(* the fallback scorer's fractional location score stays an integer.       *)
(* Distances are kept in metres; time is kept in milliseconds.             *)
(***************************************************************************)
EXTENDS Integers, Sequences, FiniteSets, TLC

VARIABLES
    fLost, fFound, fResult,     \* one call of shouldSkipComparison
    mTarget, mPool, mRun,       \* one matching run of MatchingService.findMatches
    now,                        \* Date.now(), in ms
    nextSweep, lastSweep,       \* the setInterval timer of the cooldown sweep
    io,                         \* whether initSocket has set the socket server
    recentNotifications,        \* userId -> set of notification keys
    socketEmits,                \* io.to(userId).emit(...) calls, in order
    notificationDb,             \* the Notification collection, in order
    emitCalls,                  \* emitNotification calls made by handlers, in order
    items,                      \* the items collection, in insertion order
    requests,                   \* number of item requests handled so far
    response,                   \* what the last item request answered
    aPair,                      \* the lost and found item of one candidate step
    aText, aVision, aEval,      \* what the three analyzer calls of the step returned
    apiKey,                     \* whether VisionService has an API key
    analysisCache,              \* VisionService.analysisCache: normalized url -> entry
    icCache,                    \* ImageComparisonService.analysisCache
    cacheCall,                  \* the last call that went through a cache
    aiRun,                      \* one run of AIMatchingService.findMatches
    icCall,                     \* one call of a helper of ImageComparisonService
    tasks,                      \* notification.save() calls awaited, in order
    roots,                      \* the notification calls made from outside, in order
    userDoc,                    \* the stored user of the refresh tokens
    authReqs                    \* verifyToken requests, each with its position

filterVars == <<fLost, fFound, fResult>>
matchVars  == <<mTarget, mPool, mRun>>
notifyVars == <<now, nextSweep, lastSweep, io, recentNotifications, socketEmits,
                notificationDb, emitCalls>>
itemVars   == <<items, requests, response>>
stepVars   == <<aPair, aText, aVision, aEval>>
visionVars == <<apiKey, analysisCache, icCache, cacheCall>>
analyzerVars == <<stepVars, visionVars, aiRun>>
callVars == <<icCall, tasks, roots, userDoc, authReqs>>
vars == <<filterVars, matchVars, notifyVars, itemVars, analyzerVars, callVars>>

(***************************************************************************)
(* Bounds of the model.                                                    *)
(***************************************************************************)
MaxTimestamp == 2
MaxPool == 2
MaxSeconds == 10
MaxCalls == 3
MaxItems == 2
MaxRequests == 3
MaxHalfDays == 3
MaxWebEntities == 4
MaxCandidates == 3
MaxHandled == 1

\* Points of one score point, in the model's fixed-point unit.
Pt(n) == n * 1000

(***************************************************************************)
(* Item fields (IItem).                                                    *)
(***************************************************************************)
\* timestamp?: Date -- 0 stands for an absent timestamp (undefined),
\* InvalidDate for a Date object holding NaN, 1..MaxTimestamp for real dates.
NoTimestamp == 0
InvalidDate == -1
Timestamps == {NoTimestamp, InvalidDate} \cup (1..MaxTimestamp)

\* category?: string -- "" is what uploadItem stores for a missing category;
\* it is falsy like undefined.
Categories == {"", "Wallet", "Backpack"}

\* Sample coordinates: (40.0,-73.0), (40.01,-73.01), (40.8993,-73.0),
\* (40.8994,-73.0).  Points 1 and 3 are just under 100 km apart, points 1
\* and 4 just over.
Points == 1..4

\* location: absent (undefined or ""), a free-text string, null, an object
\* without numeric lat/lng, or an object with numeric lat and lng.
LocNone   == [kind |-> "none",   pt |-> 0]
LocText   == [kind |-> "text",   pt |-> 0]
LocNull   == [kind |-> "null",   pt |-> 0]
LocObject == [kind |-> "object", pt |-> 0]
LocCoords(p) == [kind |-> "coords", pt |-> p]
Locations == {LocNone, LocText, LocNull, LocObject} \cup {LocCoords(p) : p \in Points}

\* imageUrl: string -- NoImage is an absent or empty image reference.
NoImage == ""
DefaultImage == "http://host/uploads/my wallet.jpg"

\* The values of the variables a specification does not use.
NotCalled == [called |-> FALSE, threw |-> FALSE, value |-> FALSE]
NoItem ==
    [id |-> 0, userId |-> "", itemType |-> "lost", isResolved |-> FALSE,
     timestamp |-> NoTimestamp, category |-> "", location |-> LocNone,
     description |-> <<>>, imageUrl |-> NoImage]

NoRun ==
    [done |-> FALSE, path |-> "none", threw |-> FALSE, result |-> <<>>,
     outcome |-> <<>>, compared |-> {}, scored |-> {}, caught |-> {},
     scoreOf |-> {}]

(***************************************************************************)
(* calculateDistanceInKm: the haversine distance, in metres.  The table    *)
(* holds R * c of the source (R = 6371) for the sample coordinates,        *)
(* rounded to the metre.                                                   *)
(***************************************************************************)
Infinity == 1000000000

HaversineMetres ==
    <<  <<0,      1401,  99998, 100009>>,
        <<1401,   0,     98889, 98900>>,
        <<99998,  98889, 0,     11>>,
        <<100009, 98900, 11,    0>>  >>

\* An object without numeric lat/lng makes the arithmetic yield NaN; NaN
\* fails every "distance < Infinity" test of the callers, as Infinity does.
calculateDistanceInKm(location1, location2) ==
    IF \/ location1.kind \in {"none", "null", "text"}
       \/ location2.kind \in {"none", "null", "text"}
    THEN Infinity
    ELSE IF location1.kind = "object" \/ location2.kind = "object"
    THEN Infinity
    ELSE HaversineMetres[location1.pt][location2.pt]

\* validLocation(loc): typeof loc === 'object' && typeof loc.lat === 'number'
\* && typeof loc.lng === 'number'.  typeof null is 'object', so reading
\* null.lat throws a TypeError.
validLocationThrows(loc) == loc.kind = "null"
validLocation(loc) == loc.kind = "coords"

\* new Date(a) < new Date(b): false when either date is invalid (NaN).
DateBefore(a, b) == a # InvalidDate /\ b # InvalidDate /\ a < b

Returned(v) == [threw |-> FALSE, value |-> v]
Thrown == [threw |-> TRUE, value |-> FALSE]

SkipDistanceMetres == 100 * 1000

\* A variant that lets resolved items through.
shouldSkipComparisonNoResolvedRule(lostItem, foundItem) ==
    IF /\ lostItem.timestamp # NoTimestamp /\ foundItem.timestamp # NoTimestamp
       /\ DateBefore(foundItem.timestamp, lostItem.timestamp)
    THEN Returned(TRUE)
    ELSE IF /\ lostItem.category # "" /\ foundItem.category # ""
            /\ lostItem.category # foundItem.category
    THEN Returned(TRUE)
    ELSE IF validLocationThrows(lostItem.location) THEN Thrown
    ELSE IF validLocation(lostItem.location) /\ validLocationThrows(foundItem.location)
    THEN Thrown
    ELSE LET distance ==
                 IF validLocation(lostItem.location) /\ validLocation(foundItem.location)
                 THEN calculateDistanceInKm(lostItem.location, foundItem.location)
                 ELSE Infinity
         IN  Returned(distance < Infinity /\ distance > SkipDistanceMetres)

\* A variant that accepts a find dated before the loss.
shouldSkipComparisonNoDateRule(lostItem, foundItem) ==
    IF lostItem.isResolved \/ foundItem.isResolved THEN Returned(TRUE)
    ELSE IF /\ lostItem.category # "" /\ foundItem.category # ""
            /\ lostItem.category # foundItem.category
    THEN Returned(TRUE)
    ELSE IF validLocationThrows(lostItem.location) THEN Thrown
    ELSE IF validLocation(lostItem.location) /\ validLocationThrows(foundItem.location)
    THEN Thrown
    ELSE LET distance ==
                 IF validLocation(lostItem.location) /\ validLocation(foundItem.location)
                 THEN calculateDistanceInKm(lostItem.location, foundItem.location)
                 ELSE Infinity
         IN  Returned(distance < Infinity /\ distance > SkipDistanceMetres)

shouldSkipComparison(lostItem, foundItem) ==
    IF lostItem.isResolved \/ foundItem.isResolved THEN Returned(TRUE)
    ELSE IF /\ lostItem.timestamp # NoTimestamp /\ foundItem.timestamp # NoTimestamp
            /\ DateBefore(foundItem.timestamp, lostItem.timestamp)
    THEN Returned(TRUE)
    ELSE IF /\ lostItem.category # "" /\ foundItem.category # ""
            /\ lostItem.category # foundItem.category
    THEN Returned(TRUE)
    ELSE IF validLocationThrows(lostItem.location) THEN Thrown
    ELSE IF validLocation(lostItem.location) /\ validLocationThrows(foundItem.location)
    THEN Thrown
    ELSE LET distance ==
                 IF validLocation(lostItem.location) /\ validLocation(foundItem.location)
                 THEN calculateDistanceInKm(lostItem.location, foundItem.location)
                 ELSE Infinity
         IN  Returned(distance < Infinity /\ distance > SkipDistanceMetres)

(***************************************************************************)
(* GeminiService.evaluateMatch.  A provider outcome is either a failure    *)
(* (the call throws, or the answer is not the expected JSON) or a numeric  *)
(* confidenceScore; the score is clamped to [0, 100].                      *)
(***************************************************************************)
ProviderDown == [up |-> FALSE, raw |-> 0]
ProviderScore(r) == [up |-> TRUE, raw |-> r]
RawScores == {Pt(0 - 10), Pt(54), Pt(55), Pt(150)}
Outcomes == {ProviderDown} \cup {ProviderScore(r) : r \in RawScores}

Min(a, b) == IF a < b THEN a ELSE b
Max(a, b) == IF a > b THEN a ELSE b

\* A variant that returns the provider's number as it came.
evaluateMatchUnclamped(outcome) ==
    IF ~outcome.up THEN 0
    ELSE outcome.raw

evaluateMatch(outcome) ==
    IF ~outcome.up THEN 0
    ELSE Min(Pt(100), Max(0, outcome.raw))

(***************************************************************************)
(* GeminiService: what model.generateContent(prompt) may do.  The call     *)
(* rejects (network error, quota, bad API key), or it resolves with a text *)
(* that is not JSON, that is the JSON value null, or that is a JSON object *)
(* whose fields may or may not have the expected types.                    *)
(***************************************************************************)
NotANumber == [isNumber |-> FALSE, value |-> 0]
Number(v) == [isNumber |-> TRUE, value |-> v]
NotAString == [isString |-> FALSE, value |-> ""]
String(str) == [isString |-> TRUE, value |-> str]
NotABoolean == [isBoolean |-> FALSE, value |-> FALSE]
Boolean(b) == [isBoolean |-> TRUE, value |-> b]

ResponseKinds == {"rejects", "text", "null", "object"}

\* The scores a provider may put into confidenceScore: on, next to and far
\* from the two ends of [0, 100] and the 55-point threshold.
EvalRawScores ==
    {Pt(0 - 10), 0 - 1, 0, 1, Pt(54), Pt(55), Pt(100) - 1, Pt(100), Pt(100) + 1, Pt(150)}

EvalResponses ==
    [kind : ResponseKinds \ {"object"}, confidenceScore : {NotANumber},
     reasoning : {NotAString}]
    \cup [kind : {"object"},
          confidenceScore : {NotANumber} \cup {Number(r) : r \in EvalRawScores},
          reasoning : {NotAString, String("same brand and colour")}]

TextResponses ==
    [kind : ResponseKinds \ {"object"}, isTextLikelyMatch : {NotABoolean},
     reason : {NotAString}, confidence : {NotANumber}]
    \cup [kind : {"object"},
          isTextLikelyMatch : {NotABoolean, Boolean(TRUE), Boolean(FALSE)},
          reason : {NotAString, String("both describe a black wallet")},
          confidence : {NotANumber, Number(Pt(90))}]

TextResult(isTextLikelyMatch, reason) ==
    [threw |-> FALSE, isTextLikelyMatch |-> isTextLikelyMatch, reason |-> reason]
TextThrown == [threw |-> TRUE, isTextLikelyMatch |-> FALSE, reason |-> ""]

\* A variant without the outer try/catch: a rejected provider call
\* propagates to the caller.
compareDescriptionsUncaught(lostItem, foundItem, resp) ==
    IF lostItem.description = <<>> \/ foundItem.description = <<>>
    THEN TextResult(FALSE, "One or both items missing description")
    ELSE IF resp.kind = "rejects" THEN TextThrown
    ELSE IF resp.kind \in {"text", "null"}
    THEN TextResult(FALSE, "Error processing text comparison")
    ELSE IF \/ ~resp.isTextLikelyMatch.isBoolean
            \/ ~resp.reason.isString
            \/ ~resp.confidence.isNumber
    THEN TextResult(FALSE, "Error: Invalid response format from AI")
    ELSE TextResult(resp.isTextLikelyMatch.value, resp.reason.value)

\* GeminiService.compareDescriptions.  JSON.parse throws on a text that is
\* not JSON, and reading a field of null throws; both are caught by the
\* inner catch.
compareDescriptions(lostItem, foundItem, resp) ==
    IF lostItem.description = <<>> \/ foundItem.description = <<>>
    THEN TextResult(FALSE, "One or both items missing description")
    ELSE IF resp.kind = "rejects"
    THEN TextResult(FALSE, "Error processing text comparison")
    ELSE IF resp.kind \in {"text", "null"}
    THEN TextResult(FALSE, "Error processing text comparison")
    ELSE IF \/ ~resp.isTextLikelyMatch.isBoolean
            \/ ~resp.reason.isString
            \/ ~resp.confidence.isNumber
    THEN TextResult(FALSE, "Error: Invalid response format from AI")
    ELSE TextResult(resp.isTextLikelyMatch.value, resp.reason.value)

\* What GeminiService.evaluateMatch makes of the provider's answer: a
\* numeric confidenceScore when the answer is an object of the expected
\* shape, a failure otherwise.
EvalOutcome(resp) ==
    IF resp.kind = "object" /\ resp.confidenceScore.isNumber /\ resp.reasoning.isString
    THEN ProviderScore(resp.confidenceScore.value)
    ELSE ProviderDown

\* The { confidenceScore, reasoning } evaluateMatch resolves with.
matchEvaluation(resp) ==
    LET outcome == EvalOutcome(resp)
    IN  [threw |-> FALSE,
         confidenceScore |-> evaluateMatch(outcome),
         reasoning |-> IF outcome.up THEN resp.reasoning.value ELSE ""]

(***************************************************************************)
(* Array.prototype.sort((a, b) => b.confidenceScore - a.confidenceScore):  *)
(* a stable sort, descending by score.                                     *)
(***************************************************************************)
RECURSIVE InsertDesc(_, _)
InsertDesc(sorted, e) ==
    IF sorted = <<>> THEN <<e>>
    ELSE IF Head(sorted).confidenceScore >= e.confidenceScore
         THEN <<Head(sorted)>> \o InsertDesc(Tail(sorted), e)
         ELSE <<e>> \o sorted

RECURSIVE SortDescFrom(_, _)
SortDescFrom(sorted, rest) ==
    IF rest = <<>> THEN sorted
    ELSE SortDescFrom(InsertDesc(sorted, Head(rest)), Tail(rest))

\* A variant that returns the matches in insertion order.
SortByScoreUnsorted(matches) == matches

SortByScore(matches) == SortDescFrom(<<>>, matches)

(***************************************************************************)
(* Which of the pair is the lost item and which the found one.             *)
(***************************************************************************)
LostOf(targetItem, potentialMatch) ==
    IF targetItem.itemType = "lost" THEN targetItem ELSE potentialMatch
FoundOf(targetItem, potentialMatch) ==
    IF targetItem.itemType = "found" THEN targetItem ELSE potentialMatch

Match(i, item, score) == [idx |-> i, item |-> item, confidenceScore |-> score]

SignificantScore == Pt(55)

(***************************************************************************)
(* AIMatchingService.findMatches: the loop over potentialMatches.  Each    *)
(* candidate is handled inside its own try/catch.  acc carries the matches *)
(* pushed so far and the trace of what was done to which candidate.        *)
(***************************************************************************)
AIStart ==
    [matches |-> <<>>, compared |-> {}, scored |-> {}, caught |-> {}, threw |-> FALSE,
     scoreOf |-> {}]

\* A variant that analyses the pair before it asks the candidate filter.
AICandidateFilterLast(targetItem, potentialMatch, i, outcome, acc) ==
    LET lostItem == LostOf(targetItem, potentialMatch)
        foundItem == FoundOf(targetItem, potentialMatch)
        skip == shouldSkipComparison(lostItem, foundItem)
        confidenceScore == evaluateMatch(outcome)
        analysed == [acc EXCEPT !.compared = @ \cup {i}, !.scored = @ \cup {i},
                                !.scoreOf = @ \cup {<<i, confidenceScore>>}]
    IN  IF skip.threw THEN [acc EXCEPT !.caught = @ \cup {i}]
        ELSE IF skip.value THEN analysed
        ELSE [analysed EXCEPT
                !.matches = IF confidenceScore >= SignificantScore
                            THEN Append(@, Match(i, potentialMatch, confidenceScore))
                            ELSE @]

AICandidate(targetItem, potentialMatch, i, outcome, acc) ==
    LET lostItem == LostOf(targetItem, potentialMatch)
        foundItem == FoundOf(targetItem, potentialMatch)
        skip == shouldSkipComparison(lostItem, foundItem)
        confidenceScore == evaluateMatch(outcome)
    IN  IF skip.threw THEN [acc EXCEPT !.caught = @ \cup {i}]
        ELSE IF skip.value THEN acc
        ELSE [acc EXCEPT
                !.compared = @ \cup {i},
                !.scored = @ \cup {i},
                !.scoreOf = @ \cup {<<i, confidenceScore>>},
                !.matches = IF confidenceScore >= SignificantScore
                            THEN Append(@, Match(i, potentialMatch, confidenceScore))
                            ELSE @]

\* A variant in which the first exception ends the loop.
RECURSIVE AILoopAbortOnError(_, _, _, _, _)
AILoopAbortOnError(targetItem, potentialMatches, outcomes, i, acc) ==
    IF i > Len(potentialMatches) \/ acc.caught # {} THEN acc
    ELSE AILoopAbortOnError(targetItem, potentialMatches, outcomes, i + 1,
                AICandidate(targetItem, potentialMatches[i], i, outcomes[i], acc))

RECURSIVE AILoop(_, _, _, _, _)
AILoop(targetItem, potentialMatches, outcomes, i, acc) ==
    IF i > Len(potentialMatches) THEN acc
    ELSE AILoop(targetItem, potentialMatches, outcomes, i + 1,
                AICandidate(targetItem, potentialMatches[i], i, outcomes[i], acc))

AIFindMatches(targetItem, potentialMatches, outcomes) ==
    LET acc == AILoop(targetItem, potentialMatches, outcomes, 1, AIStart)
    IN  [acc EXCEPT !.matches = SortByScore(@)]

(***************************************************************************)
(* The fallback scorer of MatchingService.findMatches.  A description is   *)
(* the sequence of its whitespace-separated words; <<>> is a missing or    *)
(* empty description.                                                      *)
(***************************************************************************)
toLowerCase(word) ==
    CASE word = "Black" -> "black"
      [] word = "Bag" -> "bag"
      [] word = "Handbag" -> "handbag"
      [] word = "Shoulder bag" -> "shoulder bag"
      [] word = "Wallet" -> "wallet"
      [] word = "Loudspeaker" -> "loudspeaker"
      [] word = "Speaker" -> "speaker"
      [] word = "Car key" -> "car key"
      [] OTHER -> word

LowerWords(description) ==
    [k \in 1..Len(description) |-> toLowerCase(description[k])]

SeqRange(seq) == {seq[k] : k \in 1..Len(seq)}

\* for (const word of foundWords) if (lostWords.has(word) && word.length > 2) matchingWords++
matchingWords(lostDescription, foundDescription) ==
    LET lostWords == SeqRange(LowerWords(lostDescription))
        foundWords == LowerWords(foundDescription)
    IN  Cardinality({k \in 1..Len(foundWords) :
                        foundWords[k] \in lostWords /\ Len(foundWords[k]) > 2})

\* A variant without the 20-point cap.
descriptionScoreUncapped(lostItem, foundItem) ==
    IF lostItem.description # <<>> /\ foundItem.description # <<>>
    THEN matchingWords(lostItem.description, foundItem.description) * Pt(5)
    ELSE 0

descriptionScore(lostItem, foundItem) ==
    IF lostItem.description # <<>> /\ foundItem.description # <<>>
    THEN Min(Pt(20), matchingWords(lostItem.description, foundItem.description) * Pt(5))
    ELSE 0

categoryScore(lostItem, foundItem) ==
    IF /\ lostItem.category # "" /\ foundItem.category # ""
       /\ lostItem.category = foundItem.category
    THEN Pt(40)
    ELSE 0

\* Math.max(0, 40 - distance * 0.4) with the distance in km: in thousandths
\* of a point and metres this is 40000 - 0.4 * metres.
locationScore(lostItem, foundItem) ==
    LET distance ==
            IF validLocation(lostItem.location) /\ validLocation(foundItem.location)
            THEN calculateDistanceInKm(lostItem.location, foundItem.location)
            ELSE Infinity
    IN  IF distance < Infinity
        THEN Max(0, Pt(40) - ((distance * 4) \div 10))
        ELSE 0

fallbackScore(lostItem, foundItem) ==
    categoryScore(lostItem, foundItem)
    + locationScore(lostItem, foundItem)
    + descriptionScore(lostItem, foundItem)

FallbackCandidate(targetItem, potentialMatch, i, acc) ==
    LET lostItem == LostOf(targetItem, potentialMatch)
        foundItem == FoundOf(targetItem, potentialMatch)
        skip == shouldSkipComparison(lostItem, foundItem)
        score == fallbackScore(lostItem, foundItem)
    IN  IF potentialMatch.itemType = targetItem.itemType THEN acc
        ELSE IF skip.threw THEN [acc EXCEPT !.threw = TRUE]
        ELSE IF skip.value THEN acc
        ELSE [acc EXCEPT
                !.scored = @ \cup {i},
                !.scoreOf = @ \cup {<<i, score>>},
                !.matches = IF score > 0
                            THEN Append(@, Match(i, potentialMatch, score))
                            ELSE @]

\* The loop ends at the first exception: nothing catches it inside the
\* catch block, so findMatches rejects.
RECURSIVE FallbackLoop(_, _, _, _)
FallbackLoop(targetItem, potentialMatches, i, acc) ==
    IF i > Len(potentialMatches) \/ acc.threw THEN acc
    ELSE FallbackLoop(targetItem, potentialMatches, i + 1,
                      FallbackCandidate(targetItem, potentialMatches[i], i, acc))

FallbackFindMatches(targetItem, potentialMatches) ==
    LET acc == FallbackLoop(targetItem, potentialMatches, 1, AIStart)
    IN  IF acc.threw THEN [acc EXCEPT !.matches = <<>>]
        ELSE [acc EXCEPT !.matches = SortByScore(@)]

(***************************************************************************)
(* MatchingService.findMatches: try the AI matching service; when that     *)
(* call rejects, run the fallback scorer over the same pool.  aiRejects    *)
(* says whether the awaited aiMatchingService.findMatches call rejected.   *)
(* The loop of AIMatchingService.findMatches catches whatever a candidate  *)
(* raises and the analyzers catch every provider error, so no provider     *)
(* outcome makes the call reject: a rejection comes from outside the loop  *)
(* and is an input of the run, independent of the provider outcomes.       *)
(***************************************************************************)
AIRun(r, outcomes) ==
    [done |-> TRUE, path |-> "ai", threw |-> FALSE, result |-> r.matches,
     outcome |-> outcomes, compared |-> r.compared, scored |-> r.scored,
     caught |-> r.caught, scoreOf |-> r.scoreOf]

FallbackRun(r) ==
    [done |-> TRUE, path |-> "fallback", threw |-> r.threw,
     result |-> r.matches, outcome |-> <<>>, compared |-> {},
     scored |-> r.scored, caught |-> {}, scoreOf |-> r.scoreOf]

findMatches(targetItem, potentialMatches, outcomes, aiRejects) ==
    IF ~aiRejects
    THEN AIRun(AIFindMatches(targetItem, potentialMatches, outcomes), outcomes)
    ELSE FallbackRun(FallbackFindMatches(targetItem, potentialMatches))

(***************************************************************************)
(* VisionService: image signatures.  A confidence is kept in hundredths    *)
(* (100 = 1.0); the sample confidences 0, 0.5 and 1.0 are exact in binary  *)
(* floating point, so the integer arithmetic below is the source's.        *)
(***************************************************************************)
Confidences == {0, 50, 100}

Label(description, score) == [description |-> description, score |-> score]

\* The description of an annotation that came without one (undefined).
NoDescription == "<undefined>"

EmptySignature == [labels |-> <<>>, objects |-> <<>>]

\* What the annotate call answers for an image: labels and objects.
Signatures ==
    { [labels |-> <<Label("Bag", 100)>>,
       objects |-> <<Label("Bag", 100)>>],
      [labels |-> <<Label("Bag", 100), Label("Handbag", 100), Label("Shoulder bag", 50)>>,
       objects |-> <<Label("Handbag", 100), Label("Bag", 100)>>],
      [labels |-> <<Label("Wallet", 100), Label("Bag", 50)>>,
       objects |-> <<Label("Wallet", 50)>>],
      [labels |-> <<Label("Handbag", 50), Label("Wallet", 0)>>,
       objects |-> <<>>],
      [labels |-> <<Label("Bag", 100), Label(NoDescription, 100)>>,
       objects |-> <<Label("Bag", 100)>>],
      EmptySignature }

\* a.includes(b) for lower-case terms of the vocabulary.
includes(a, b) ==
    \/ a = b
    \/ b = "bag" /\ a \in {"handbag", "shoulder bag"}

\* The fuzzy match of calculateLabelSimilarity and calculateObjectSimilarity.
FuzzyMatch(term1, term2) ==
    \/ toLowerCase(term2) = toLowerCase(term1)
    \/ includes(toLowerCase(term2), toLowerCase(term1))
    \/ includes(toLowerCase(term1), toLowerCase(term2))

\* labels2.find(...): the index of the first match, 0 for undefined, and
\* FindThrows when the callback reads toLowerCase of a missing description.
FindThrows == 0 - 1

RECURSIVE FindFrom(_, _, _)
FindFrom(labels2, label1, k) ==
    IF k > Len(labels2) THEN 0
    ELSE IF labels2[k].description = NoDescription \/ label1.description = NoDescription
    THEN FindThrows
    ELSE IF FuzzyMatch(label1.description, labels2[k].description) THEN k
    ELSE FindFrom(labels2, label1, k + 1)

\* labels1.reduce(...): the sum of label1.score * match.score, in
\* ten-thousandths.
Sum(n) == [threw |-> FALSE, sum |-> n]
SumThrows == [threw |-> TRUE, sum |-> 0]

RECURSIVE MatchCount(_, _, _)
MatchCount(labels1, labels2, count) ==
    IF labels1 = <<>> THEN Sum(count)
    ELSE LET k == FindFrom(labels2, Head(labels1), 1)
         IN  IF k = FindThrows THEN SumThrows
             ELSE MatchCount(Tail(labels1), labels2,
                             IF k = 0 THEN count
                             ELSE count + Head(labels1).score * labels2[k].score)

\* A similarity is the fraction num / den of ten-thousandths.
Fraction(num, den) == [threw |-> FALSE, num |-> num, den |-> den]
FractionThrows == [threw |-> TRUE, num |-> 0, den |-> 1]

\* calculateLabelSimilarity and calculateObjectSimilarity: the same
\* computation, on description and on name.
calculateLabelSimilarity(labels1, labels2) ==
    IF Len(labels1) = 0 \/ Len(labels2) = 0 THEN Fraction(0, 1)
    ELSE LET matchCount == MatchCount(labels1, labels2, 0)
         IN  IF matchCount.threw THEN FractionThrows
             ELSE Fraction(matchCount.sum, Min(Len(labels1), Len(labels2)))

\* Math.round((labelSimilarity * 0.5 + objectSimilarity * 0.5) * 100), in
\* whole points: the sum of the two fractions, divided by 200 and rounded
\* half up.
weightedScore(labelSimilarity, objectSimilarity) ==
    LET num == labelSimilarity.num * objectSimilarity.den
               + objectSimilarity.num * labelSimilarity.den
        den == labelSimilarity.den * objectSimilarity.den * 200
    IN  (2 * num + den) \div (2 * den)

VisionResult(score) == [threw |-> FALSE, similarityScore |-> score]

\* compareImages once both analyses returned a signature: an exception of
\* the similarity computation is caught and answered with score 0.
compareSignatures(image1Data, image2Data) ==
    LET labelSimilarity == calculateLabelSimilarity(image1Data.labels, image2Data.labels)
        objectSimilarity == calculateLabelSimilarity(image1Data.objects, image2Data.objects)
    IN  IF labelSimilarity.threw \/ objectSimilarity.threw THEN VisionResult(0)
        ELSE VisionResult(weightedScore(labelSimilarity, objectSimilarity))

(***************************************************************************)
(* VisionService: the analysis cache.                                      *)
(***************************************************************************)
\* Image references as they arrive: two spellings of one remote image, one
\* reference that decodeURI rejects, and a local development file.
ImageUrls ==
    { "http://host/uploads/my wallet.jpg",
      "http://host\\uploads\\my%20wallet.jpg",
      "http://host/uploads/100%.jpg",
      "http://localhost/public/bag.jpg" }

\* normalizeUrl: backslashes become slashes, then encodeURI(decodeURI(url));
\* when decodeURI throws, the reference is returned as it came.
normalizeUrl(url) ==
    CASE url = "http://host/uploads/my wallet.jpg" -> "http://host/uploads/my%20wallet.jpg"
      [] url = "http://host\\uploads\\my%20wallet.jpg" -> "http://host/uploads/my%20wallet.jpg"
      [] url = "http://host/uploads/100%.jpg" -> "http://host/uploads/100%.jpg"
      [] OTHER -> url

NormalizedUrls == {normalizeUrl(url) : url \in ImageUrls \cup {NoImage}}

\* normalizedUrl.startsWith('http://localhost')
IsLocalFile(normalizedUrl) == normalizedUrl = "http://localhost/public/bag.jpg"

Hours(n) == n * 60 * 60 * 1000
cacheExpirationMs == 1000 * 60 * 60 * 24

NoEntry == [cached |-> FALSE, timestamp |-> 0, data |-> EmptySignature]
Entry(at, data) == [cached |-> TRUE, timestamp |-> at, data |-> data]

\* What happens to one analysis that goes to the provider: the image
\* cannot be read (download or file read fails), the annotate request
\* fails (HTTP error or its 15-second timeout), the answer holds no
\* responses[0], or the answer holds a signature.
ImageUnreadable == [kind |-> "imageUnreadable", data |-> EmptySignature]
AnnotateFails == [kind |-> "annotateFails", data |-> EmptySignature]
InvalidResponse == [kind |-> "invalidResponse", data |-> EmptySignature]
Annotated(data) == [kind |-> "annotated", data |-> data]
AnalysisOutcomes ==
    {ImageUnreadable, AnnotateFails, InvalidResponse}
    \cup {Annotated(data) : data \in Signatures}

\* The remote requests one analysis issues: the download, unless the image
\* is a local file or there is no reference to download, and the annotate
\* request, unless the image could not be read.
RemoteRequests(imageUrl, outcome) ==
    (IF IsLocalFile(normalizeUrl(imageUrl)) \/ imageUrl = NoImage THEN 0 ELSE 1)
    + (IF outcome.kind = "imageUnreadable" \/ imageUrl = NoImage THEN 0 ELSE 1)

Analysis(hit, isNull, data, write, remote) ==
    [hit |-> hit, isNull |-> isNull, data |-> data, write |-> write, remote |-> remote]

\* A variant whose freshness test never fails.
analyzeImageNoExpiry(cache, key, imageUrl, outcome, at) ==
    LET normalizedUrl == normalizeUrl(imageUrl)
        cachedResult == cache[normalizedUrl]
    IN  IF cachedResult.cached
        THEN Analysis(TRUE, FALSE, cachedResult.data, FALSE, 0)
        ELSE IF ~key THEN Analysis(FALSE, TRUE, EmptySignature, FALSE, 0)
        ELSE IF outcome.kind # "annotated" \/ imageUrl = NoImage
        THEN Analysis(FALSE, TRUE, EmptySignature, FALSE,
                      RemoteRequests(imageUrl, outcome))
        ELSE Analysis(FALSE, FALSE, outcome.data, TRUE,
                      RemoteRequests(imageUrl, outcome))

\* VisionService.analyzeImage up to its result: whether the cache answered,
\* whether the result is null, the signature, whether a cache entry is
\* written, and the number of remote requests issued.  at is Date.now() at
\* the start of the call; key says whether the API key is configured.
analyzeImage(cache, key, imageUrl, outcome, at) ==
    LET normalizedUrl == normalizeUrl(imageUrl)
        cachedResult == cache[normalizedUrl]
    IN  IF cachedResult.cached /\ (at - cachedResult.timestamp) < cacheExpirationMs
        THEN Analysis(TRUE, FALSE, cachedResult.data, FALSE, 0)
        ELSE IF ~key THEN Analysis(FALSE, TRUE, EmptySignature, FALSE, 0)
        ELSE IF outcome.kind # "annotated" \/ imageUrl = NoImage
        THEN Analysis(FALSE, TRUE, EmptySignature, FALSE,
                      RemoteRequests(imageUrl, outcome))
        ELSE Analysis(FALSE, FALSE, outcome.data, TRUE,
                      RemoteRequests(imageUrl, outcome))

\* A variant that stores whatever the analysis returned.
WriteCacheAlways(cache, imageUrl, analysis, at) ==
    [cache EXCEPT ![normalizeUrl(imageUrl)] = Entry(at, analysis.data)]

\* this.analysisCache[normalizedUrl] = {timestamp: now, data: analysisResult}
WriteCache(cache, imageUrl, analysis, at) ==
    IF analysis.write
    THEN [cache EXCEPT ![normalizeUrl(imageUrl)] = Entry(at, analysis.data)]
    ELSE cache

\* VisionService.compareImages.  The two analyses run under Promise.all:
\* each reads the cache before either writes, and firstDone says which of
\* them completes (and writes) first.
compareImages(cache, key, image1Url, image2Url, outcome1, outcome2, firstDone, at) ==
    LET image1 == analyzeImage(cache, key, image1Url, outcome1, at)
        image2 == analyzeImage(cache, key, image2Url, outcome2, at)
        written ==
            IF firstDone = 1
            THEN WriteCache(WriteCache(cache, image1Url, image1, at), image2Url, image2, at)
            ELSE WriteCache(WriteCache(cache, image2Url, image2, at), image1Url, image1, at)
    IN  [cache |-> written,
         remote |-> image1.remote + image2.remote,
         analyses |-> <<image1, image2>>,
         result |-> IF image1.isNull \/ image2.isNull THEN VisionResult(0)
                    ELSE compareSignatures(image1.data, image2.data)]

(***************************************************************************)
(* ImageComparisonService: its analysis cache and what compareImages does  *)
(* to the analyses it reads.  analyzeImage hands out the very object it    *)
(* stored, so a write through a returned analysis is a write to the cache. *)
(***************************************************************************)
Colour(red, green, blue, pixelFraction) ==
    [red |-> red, green |-> green, blue |-> blue, pixelFraction |-> pixelFraction]

ImageData(labels, webEntities, dominantColors) ==
    [labels |-> labels, objects |-> <<>>, webEntities |-> webEntities,
     bestGuessLabels |-> <<>>, dominantColors |-> dominantColors]

\* getEmptyImageData()
EmptyImageData == ImageData(<<>>, <<>>, <<>>)

\* What the annotate call answers: a black loudspeaker, a white one, a car
\* key, a brown wallet.  pixelFraction is kept in hundredths.
ImageSignatures ==
    { ImageData(<<"Loudspeaker">>, <<"Bluetooth">>, <<Colour(20, 20, 25, 60)>>),
      ImageData(<<"Speaker">>, <<>>, <<Colour(240, 240, 240, 70)>>),
      ImageData(<<"Car key">>, <<>>, <<Colour(10, 10, 10, 50)>>),
      ImageData(<<"Wallet">>, <<>>, <<Colour(120, 80, 40, 80)>>) }

NoImageEntry == [cached |-> FALSE, timestamp |-> 0, data |-> EmptyImageData]

ImageOutcomes ==
    { [kind |-> "imageUnreadable", data |-> EmptyImageData],
      [kind |-> "annotateFails", data |-> EmptyImageData],
      [kind |-> "invalidResponse", data |-> EmptyImageData] }
    \cup {[kind |-> "annotated", data |-> data] : data \in ImageSignatures}

\* ImageComparisonService.analyzeImage up to its result.  The image is
\* read from the local public directory; any other reference leaves the
\* path empty and the read fails.  A failure returns empty image data.
analyzeImageIC(cache, key, imageUrl, outcome, at) ==
    LET normalizedUrl == normalizeUrl(imageUrl)
        cachedResult == cache[normalizedUrl]
    IN  IF cachedResult.cached /\ (at - cachedResult.timestamp) < cacheExpirationMs
        THEN Analysis(TRUE, FALSE, cachedResult.data, FALSE, 0)
        ELSE IF ~key THEN Analysis(FALSE, FALSE, EmptyImageData, FALSE, 0)
        ELSE IF ~IsLocalFile(normalizedUrl) \/ outcome.kind = "imageUnreadable"
        THEN Analysis(FALSE, FALSE, EmptyImageData, FALSE, 0)
        ELSE IF outcome.kind # "annotated"
        THEN Analysis(FALSE, FALSE, EmptyImageData, FALSE, 1)
        ELSE Analysis(FALSE, FALSE, outcome.data, TRUE, 1)

\* isKeyImage: some label, web entity or best guess includes a key term.
IsKeyTerm(term) == toLowerCase(term) = "car key"
isKeyImage(data) ==
    \/ \E k \in 1..Len(data.labels) : IsKeyTerm(data.labels[k])
    \/ \E k \in 1..Len(data.webEntities) : IsKeyTerm(data.webEntities[k])
    \/ \E k \in 1..Len(data.bestGuessLabels) : IsKeyTerm(data.bestGuessLabels[k])

\* identifyElectronicsTerms: the two tests that guard the push.
hasBlackColor(data) ==
    \E k \in 1..Len(data.dominantColors) :
        LET color == data.dominantColors[k]
        IN  color.red < 50 /\ color.green < 50 /\ color.blue < 50
            /\ color.pixelFraction > 20

hasSpeakerLabel(data) ==
    \E k \in 1..Len(data.labels) :
        toLowerCase(data.labels[k]) \in {"speaker", "loudspeaker"}

\* identifyElectronicsTerms(data), as to what it does to data:
\* data.webEntities.push('JBL speaker') for a black speaker.
identifyElectronicsTerms(data) ==
    IF hasBlackColor(data) /\ hasSpeakerLabel(data)
    THEN [data EXCEPT !.webEntities = Append(@, "JBL speaker")]
    ELSE data

\* Whether analysis k of a comparison returned the object that the cache
\* holds once both analyses are done: a cache hit, or a write that the
\* other analysis did not overwrite.
HoldsCachedObject(k, image1Url, image2Url, image1, image2, firstDone) ==
    LET own == IF k = 1 THEN image1 ELSE image2
        other == IF k = 1 THEN image2 ELSE image1
    IN  \/ own.hit
        \/ /\ own.write
           /\ ~( /\ other.write
                 /\ normalizeUrl(image1Url) = normalizeUrl(image2Url)
                 /\ firstDone = k )

\* identifyElectronicsTerms applied to the object behind a cache entry.
TouchEntry(cache, imageUrl, holds) ==
    IF holds
    THEN [cache EXCEPT ![normalizeUrl(imageUrl)].data = identifyElectronicsTerms(@)]
    ELSE cache

\* ImageComparisonService.compareImages, as to the cache: both analyses
\* under Promise.all, the early return for two key images, and then
\* identifyElectronicsTerms on either analysis.  Everything else in the
\* method reads the analyses without writing to them.
compareImagesIC(cache, key, image1Url, image2Url, outcome1, outcome2, firstDone, at) ==
    LET image1 == analyzeImageIC(cache, key, image1Url, outcome1, at)
        image2 == analyzeImageIC(cache, key, image2Url, outcome2, at)
        written ==
            IF firstDone = 1
            THEN WriteCache(WriteCache(cache, image1Url, image1, at), image2Url, image2, at)
            ELSE WriteCache(WriteCache(cache, image2Url, image2, at), image1Url, image1, at)
        holds1 == HoldsCachedObject(1, image1Url, image2Url, image1, image2, firstDone)
        holds2 == HoldsCachedObject(2, image1Url, image2Url, image1, image2, firstDone)
        touched1 == TouchEntry(written, image1Url, holds1)
        touched2 == TouchEntry(touched1, image2Url, holds2)
    IN  [cache |-> IF isKeyImage(image1.data) /\ isKeyImage(image2.data)
                   THEN written ELSE touched2,
         analyses |-> <<image1, image2>>]

(***************************************************************************)
(* One candidate step of AIMatchingService.findMatches after the filter:   *)
(* compareDescriptions and compareImages under Promise.all, then           *)
(* evaluateMatch.                                                          *)
(***************************************************************************)
NoCall == [called |-> FALSE]

NoPair == [lost |-> NoItem, found |-> NoItem]

\* No run of AIMatchingService.findMatches.
NoAIRun ==
    [pc |-> "idle", size |-> 0, index |-> 0, text |-> "none",
     images |-> <<"none", "none">>, matches |-> 0]

StepIdle == aPair = NoPair /\ aText = NoCall /\ aVision = NoCall /\ aEval = NoCall

\* The service after construction: an empty cache.
CachesEmpty ==
    /\ analysisCache = [url \in NormalizedUrls |-> NoEntry]
    /\ icCache = [url \in NormalizedUrls |-> NoImageEntry]
    /\ cacheCall = NoCall

VisionIdle == apiKey = FALSE /\ CachesEmpty

AnalyzersIdle == StepIdle /\ VisionIdle /\ aiRun = NoAIRun

\* The user document as userModel.findOne returns it: the refreshToken
\* array and the version key Mongoose keeps with it.
NoUser == [refreshToken |-> <<>>, version |-> 0]

CallsIdle ==
    /\ icCall = NoCall
    /\ tasks = <<>> /\ roots = <<>>
    /\ userDoc = NoUser /\ authReqs = <<>>

(***************************************************************************)
(* socket.service.ts: the per-user notification cooldown.                  *)
(***************************************************************************)
Users == {"u1", "u2"}
NotificationTypes == {"MATCH_FOUND", "SYSTEM_NOTIFICATION"}

NOTIFICATION_COOLDOWN == 5000
Seconds(n) == n * 1000

\* `${notification.type}_${notification.data?.matchedItemId || ''}_${Date.now()}`
NotificationKey(notification, at) ==
    [type |-> notification.type, matchedItemId |-> notification.matchedItemId, at |-> at]

\* parseInt(key): the integer the string starts with, NaN when it starts
\* with anything but a digit.  A key starts with the notification type.
FirstChar(str) ==
    CASE str = "MATCH_FOUND" -> "M"
      [] str = "SYSTEM_NOTIFICATION" -> "S"
      [] str = "MATCH_UPDATED" -> "M"
      [] OTHER -> "u"
Digits == {"0", "1", "2", "3", "4", "5", "6", "7", "8", "9"}
NaN == [nan |-> TRUE, value |-> 0]
parseInt(key) ==
    IF FirstChar(key.type) \in Digits THEN [nan |-> FALSE, value |-> key.at] ELSE NaN

\* now - parseInt(timestamp) > NOTIFICATION_COOLDOWN; false for NaN.
Expired(key, at) ==
    LET parsed == parseInt(key)
    IN  ~parsed.nan /\ at - parsed.value > NOTIFICATION_COOLDOWN

\* The body of the setInterval callback.
SweepMap(recent, at) ==
    [u \in Users |-> {key \in recent[u] : ~Expired(key, at)}]

(***************************************************************************)
(* emitNotification and createNotification call each other.  st carries    *)
(* the cooldown map, the socket emissions and the stored notifications.    *)
(* saveFails says whether notification.save() rejects.                     *)
(***************************************************************************)
RECURSIVE emitNotification(_, _, _, _, _, _)
RECURSIVE createNotification(_, _, _, _, _, _)

\* A variant without the cooldown guard.
emitNotificationNoGuard(st, ready, userId, notification, at, saveFails) ==
    IF ~ready THEN st
    ELSE [st EXCEPT
            !.recent[userId] = @ \cup {NotificationKey(notification, at)},
            !.emits = Append(@, [userId |-> userId, type |-> notification.type, at |-> at])]

emitNotification(st, ready, userId, notification, at, saveFails) ==
    IF ~ready THEN st                         \* getIO() throws; caught
    ELSE IF st.recent[userId] # {} THEN st    \* within the cooldown
    ELSE LET sent ==
                [st EXCEPT
                    !.recent[userId] = @ \cup {NotificationKey(notification, at)},
                    !.emits = Append(@, [userId |-> userId,
                                         type |-> notification.type, at |-> at])]
         IN  createNotification(sent, ready, userId, notification, at, saveFails)

createNotification(st, ready, userId, notification, at, saveFails) ==
    IF saveFails THEN st                      \* save() rejects; rethrown
    ELSE LET saved ==
                [st EXCEPT !.db = Append(@, [userId |-> userId,
                                             type |-> notification.type, at |-> at])]
         IN  emitNotification(saved, ready, userId, notification, at, saveFails)

NotifyState ==
    [recent |-> recentNotifications, emits |-> socketEmits, db |-> notificationDb,
     calls |-> emitCalls]

\* One emitNotification call made by a handler, with its entry in the call
\* log: source names the call site, score the match score it reports.
EmitCall(st, ready, userId, notification, at, swept, source, score) ==
    LET after == emitNotification(st, ready, userId, notification, at, FALSE)
    IN  [after EXCEPT !.calls = Append(@,
            [userId |-> userId, at |-> at, ready |-> ready, lastSweep |-> swept,
             delivered |-> Len(after.emits) > Len(st.emits),
             source |-> source, score |-> score])]

NotifyIdle ==
    /\ now = 0 /\ nextSweep = NOTIFICATION_COOLDOWN /\ lastSweep = 0
    /\ io = FALSE
    /\ recentNotifications = [u \in Users |-> {}]
    /\ socketEmits = <<>> /\ notificationDb = <<>> /\ emitCalls = <<>>

\* The request a handler reads: req.params.id as the position of the stored
\* item (0 when findById finds none), the stored item its matchedItemId
\* names (0 for none) and req.body.userId.
Request(handler, id, matched, userId) ==
    [handler |-> handler, id |-> id, matched |-> matched, userId |-> userId]

NoRequest == Request("none", 0, 0, "")

NoResponse ==
    [status |-> 0, matchResults |-> <<>>, matchItems |-> <<>>, request |-> NoRequest]

ItemsIdle == items = <<>> /\ requests = 0 /\ response = NoResponse

NotifyInit ==
    /\ CallsIdle
    /\ NotifyIdle
    /\ ItemsIdle
    /\ fLost = NoItem /\ fFound = NoItem /\ fResult = NotCalled
    /\ mTarget = NoItem /\ mPool = <<>> /\ mRun = NoRun
    /\ AnalyzersIdle

InitSocket ==
    /\ ~io
    /\ io' = TRUE
    /\ UNCHANGED <<callVars, now, nextSweep, lastSweep, recentNotifications, socketEmits,
                   notificationDb, emitCalls, filterVars, matchVars, itemVars, analyzerVars>>

\* Time passes; a due sweep runs before the clock moves on.
Tick ==
    /\ now < Seconds(MaxSeconds)
    /\ now < nextSweep
    /\ now' = now + Seconds(1)
    /\ UNCHANGED <<callVars, nextSweep, lastSweep, io, recentNotifications, socketEmits,
                   notificationDb, emitCalls, filterVars, matchVars, itemVars, analyzerVars>>

Sweep ==
    /\ now >= nextSweep
    /\ recentNotifications' = SweepMap(recentNotifications, now)
    /\ lastSweep' = now
    /\ nextSweep' = nextSweep + NOTIFICATION_COOLDOWN
    /\ UNCHANGED <<callVars, now, io, socketEmits, notificationDb, emitCalls,
                   filterVars, matchVars, itemVars, analyzerVars>>

EmitNotification ==
    /\ Len(emitCalls) < MaxCalls
    /\ \E userId \in Users, type \in NotificationTypes, saveFails \in BOOLEAN :
          LET notification == [type |-> type, matchedItemId |-> 0]
              st == emitNotification(NotifyState, io, userId, notification, now, saveFails)
          IN  /\ recentNotifications' = st.recent
              /\ socketEmits' = st.emits
              /\ notificationDb' = st.db
              /\ emitCalls' = Append(emitCalls,
                    [userId |-> userId, at |-> now, ready |-> io, lastSweep |-> lastSweep,
                     delivered |-> Len(st.emits) > Len(socketEmits),
                     source |-> "direct", score |-> 0])
    /\ UNCHANGED <<callVars, now, nextSweep, lastSweep, io, filterVars, matchVars,
                   itemVars, analyzerVars>>

NotifyNext == InitSocket \/ Tick \/ Sweep \/ EmitNotification

SpecNotify == NotifyInit /\ [][NotifyNext]_vars

(***************************************************************************)
(* emitNotification and createNotification between their awaits.  Each     *)
(* runs without interruption up to its await: emitNotification up to       *)
(* await createNotification(...), createNotification up to                 *)
(* await notification.save().  a carries the cooldown map, the emissions,  *)
(* the stored notifications, the saves awaited and the log of the          *)
(* emitNotification calls the handlers made; root is the place in that log *)
(* of the call a step works for.  createNotification is called by          *)
(* emitNotification only.                                                  *)
(***************************************************************************)
AsyncState ==
    [recent |-> recentNotifications, emits |-> socketEmits, db |-> notificationDb,
     tasks |-> tasks, roots |-> roots]

\* createNotification up to await notification.save()
createStarts(a, userId, type, root) ==
    [a EXCEPT !.tasks = Append(@, [userId |-> userId, type |-> type, root |-> root])]

\* A variant of emitNotification without the cooldown guard.
emitStartsUnguarded(a, ready, userId, type, at, root) ==
    IF ~ready THEN a
    ELSE createStarts(
            [a EXCEPT
                !.recent[userId] =
                    @ \cup {NotificationKey([type |-> type, matchedItemId |-> 0], at)},
                !.emits = Append(@, [userId |-> userId, type |-> type, at |-> at]),
                !.roots[root].emitted = @ + 1],
            userId, type, root)

\* A variant of emitNotification that does not mark the user's window.
emitStartsUnmarked(a, ready, userId, type, at, root) ==
    IF ~ready \/ a.recent[userId] # {} THEN a
    ELSE createStarts(
            [a EXCEPT
                !.emits = Append(@, [userId |-> userId, type |-> type, at |-> at]),
                !.roots[root].emitted = @ + 1],
            userId, type, root)

\* emitNotification up to await createNotification(...): getIO, the guard,
\* the mark, the emission and the call of createNotification.
emitStarts(a, ready, userId, type, at, root) ==
    IF ~ready \/ a.recent[userId] # {} THEN a
    ELSE createStarts(
            [a EXCEPT
                !.recent[userId] =
                    @ \cup {NotificationKey([type |-> type, matchedItemId |-> 0], at)},
                !.emits = Append(@, [userId |-> userId, type |-> type, at |-> at]),
                !.roots[root].emitted = @ + 1],
            userId, type, root)

\* createNotification after notification.save() resolved: the record is
\* stored and emitNotification is called, not awaited.
saveResolves(a, ready, i, at) ==
    LET task == a.tasks[i]
        saved == [a EXCEPT
                    !.db = Append(@, [userId |-> task.userId, type |-> task.type,
                                      at |-> at]),
                    !.tasks = SubSeq(@, 1, i - 1) \o SubSeq(@, i + 1, Len(@)),
                    !.roots[task.root].records = @ + 1]
    IN  emitStarts(saved, ready, task.userId, task.type, at, task.root)

\* A handler's emitNotification call, as the log keeps it: open says
\* whether the user's window was open when the call came in.
Root(userId) ==
    [userId |-> userId, at |-> now, ready |-> io,
     open |-> recentNotifications[userId] # {}, emitted |-> 0, records |-> 0,
     rejected |-> 0]

SetAsyncState(a) ==
    /\ recentNotifications' = a.recent
    /\ socketEmits' = a.emits
    /\ notificationDb' = a.db
    /\ tasks' = a.tasks
    /\ roots' = a.roots

AsyncFrame ==
    UNCHANGED <<icCall, userDoc, authReqs, now, nextSweep, lastSweep, io, emitCalls,
                filterVars, matchVars, itemVars, analyzerVars>>

\* emitNotification(userId, notification) called by a handler
EmitNotificationStarts ==
    /\ Len(roots) < MaxCalls
    /\ \E userId \in Users, type \in NotificationTypes :
          SetAsyncState(
              emitStarts([AsyncState EXCEPT !.roots = Append(@, Root(userId))],
                         io, userId, type, now, Len(roots) + 1))
    /\ AsyncFrame

\* notification.save() resolves
SaveResolves ==
    /\ \E i \in 1..Len(tasks) : SetAsyncState(saveResolves(AsyncState, io, i, now))
    /\ AsyncFrame

\* notification.save() rejects: createNotification rethrows, and the
\* emitNotification that awaited it logs the error.
SaveRejects ==
    /\ \E i \in 1..Len(tasks) :
          /\ tasks' = SubSeq(tasks, 1, i - 1) \o SubSeq(tasks, i + 1, Len(tasks))
          /\ roots' = [roots EXCEPT ![tasks[i].root].rejected = @ + 1]
    /\ UNCHANGED <<recentNotifications, socketEmits, notificationDb>>
    /\ AsyncFrame

AsyncNext ==
    \/ InitSocket
    \/ EmitNotificationStarts
    \/ SaveResolves \/ SaveRejects

SpecAsync == NotifyInit /\ [][AsyncNext]_vars

(***************************************************************************)
(* auth_middleware.ts: the refresh branch of verifyToken between its       *)
(* awaits.  A request whose access token has expired and that carries a    *)
(* refresh-token header loads the user, tests the token against the        *)
(* user's list, replaces it by a new one and saves the user.  Tokens are   *)
(* numbers; 0 stands for a header that is not there.                       *)
(***************************************************************************)
MaxRefreshes == 3

\* The refresh token the requests contend for, and another one of the
\* same user.
R == 1
OtherToken == 2

\* A refresh token jwt.verify rejects.
ForgedToken == 9

\* generateToken for the i-th request: the payload carries a random
\* number, so every call returns a token of its own.
generateToken(i) == 2 + i

PresentedTokens == {0, R, OtherToken, ForgedToken}

\* A request as verifyToken holds it: user is the document findOne
\* returned to it.
AuthRequest(access, presented) ==
    [access |-> access, presented |-> presented, pc |-> "findOne", user |-> NoUser,
     status |-> 0, refreshed |-> FALSE, issued |-> 0]

\* res.status(status).json(...)
Unauthorized(req) == [req EXCEPT !.pc = "done", !.status = 401]

\* next() with req.body.userId set
Authenticated(req, refreshed) ==
    [req EXCEPT !.pc = "done", !.status = 200, !.refreshed = refreshed]

\* A variant of the test of line 73 that lets every token pass.
IncludesAny(user, refreshToken) == TRUE

\* user.refreshToken.includes(refreshToken)
Includes(user, refreshToken) ==
    \E k \in 1..Len(user.refreshToken) : user.refreshToken[k] = refreshToken

\* user.refreshToken.filter((t) => t !== refreshToken)
FilterToken(list, refreshToken) == SelectSeq(list, LAMBDA t : t # refreshToken)

\* A variant of save that writes whatever version it loaded.
saveUnversioned(stored, user) ==
    [ok |-> TRUE,
     stored |-> [refreshToken |-> user.refreshToken, version |-> stored.version + 1]]

\* user.save() after the refreshToken array was assigned: Mongoose writes
\* the array where the stored version is the version it loaded and
\* increments the version; where the version has moved on the save is
\* rejected with a VersionError and the stored document stays.
save(stored, user) ==
    IF user.version = stored.version
    THEN [ok |-> TRUE,
          stored |-> [refreshToken |-> user.refreshToken, version |-> stored.version + 1]]
    ELSE [ok |-> FALSE, stored |-> stored]

RefreshInit ==
    /\ icCall = NoCall
    /\ tasks = <<>> /\ roots = <<>>
    /\ userDoc \in [refreshToken : {<<R>>, <<R, OtherToken>>, <<OtherToken, R>>},
                    version : {0}]
    /\ authReqs = <<>>
    /\ fLost = NoItem /\ fFound = NoItem /\ fResult = NotCalled
    /\ mTarget = NoItem /\ mPool = <<>> /\ mRun = NoRun
    /\ NotifyIdle /\ ItemsIdle
    /\ AnalyzersIdle

RefreshFrame ==
    UNCHANGED <<icCall, tasks, roots, filterVars, matchVars, notifyVars, itemVars,
                analyzerVars>>

\* verifyToken up to await userModel.findOne(...): a token that verifies
\* authenticates the request, whatever refresh-token header comes with it;
\* an expired one is refreshed only with a refresh token that verifies.
VerifyToken ==
    /\ Len(authReqs) < MaxRefreshes
    /\ \E access \in {"valid", "expired"}, presented \in PresentedTokens :
          LET req == AuthRequest(access, presented)
          IN  authReqs' =
                  Append(authReqs,
                         IF access = "valid" THEN Authenticated(req, FALSE)
                         ELSE IF presented \in {0, ForgedToken} THEN Unauthorized(req)
                         ELSE req)
    /\ UNCHANGED userDoc
    /\ RefreshFrame

\* findOne resolves: the test of the list, generateToken, the new list,
\* and the call of user.save().
FindOneResolves ==
    /\ \E i \in 1..Len(authReqs) :
          /\ authReqs[i].pc = "findOne"
          /\ authReqs' =
                [authReqs EXCEPT ![i] =
                    IF ~Includes(userDoc, @.presented) THEN Unauthorized(@)
                    ELSE [@ EXCEPT
                            !.pc = "save",
                            !.issued = generateToken(i),
                            !.user = [userDoc EXCEPT
                                        !.refreshToken =
                                            Append(FilterToken(@, authReqs[i].presented),
                                                   generateToken(i))]]]
    /\ UNCHANGED userDoc
    /\ RefreshFrame

\* user.save() settles: the new tokens go out and next() is called, or the
\* catch of line 94 answers 401.
SaveSettles ==
    /\ \E i \in 1..Len(authReqs) :
          /\ authReqs[i].pc = "save"
          /\ LET saved == save(userDoc, authReqs[i].user)
             IN  /\ userDoc' = saved.stored
                 /\ authReqs' =
                        [authReqs EXCEPT ![i] =
                            IF saved.ok THEN Authenticated(@, TRUE) ELSE Unauthorized(@)]
    /\ RefreshFrame

RefreshNext == VerifyToken \/ FindOneResolves \/ SaveSettles

SpecRefresh == RefreshInit /\ [][RefreshNext]_vars

(***************************************************************************)
(* The candidate filter on its own: one call on an arbitrary pair.         *)
(***************************************************************************)
CallResult(r) == [called |-> TRUE, threw |-> r.threw, value |-> r.value]

FilterItems(type) ==
    [id : {0}, userId : {"u1"}, itemType : {type}, isResolved : BOOLEAN,
     timestamp : Timestamps, category : Categories, location : Locations,
     description : {<<>>}, imageUrl : {NoImage}]

FilterInit ==
    /\ CallsIdle
    /\ fLost \in FilterItems("lost")
    /\ fFound \in FilterItems("found")
    /\ fResult = NotCalled
    /\ mTarget = NoItem /\ mPool = <<>> /\ mRun = NoRun
    /\ NotifyIdle /\ ItemsIdle
    /\ AnalyzersIdle

FilterCall ==
    /\ ~fResult.called
    /\ fResult' = CallResult(shouldSkipComparison(fLost, fFound))
    /\ UNCHANGED <<callVars, fLost, fFound, matchVars, notifyVars, itemVars, analyzerVars>>

FilterNext == FilterCall

SpecFilter == FilterInit /\ [][FilterNext]_vars

(***************************************************************************)
(* Matching runs.  The target and the pool are drawn from a catalogue of   *)
(* items that covers each filter rule, both item types, a null location,   *)
(* and fallback scores on both sides of the 55-point threshold.            *)
(***************************************************************************)
Item(id, user, type, resolved, ts, cat, loc, desc) ==
    [id |-> id, userId |-> user, itemType |-> type, isResolved |-> resolved,
     timestamp |-> ts, category |-> cat, location |-> loc, description |-> desc,
     imageUrl |-> DefaultImage]

LongDescription == <<"Black", "leather", "wallet", "with", "zipper", "my", "id">>
ShortDescription == <<"black", "wallet">>

Targets ==
    { Item(1, "u1", "lost",  FALSE, 2, "Wallet", LocCoords(1), LongDescription),
      Item(2, "u1", "found", FALSE, 2, "Wallet", LocCoords(1), LongDescription),
      Item(3, "u1", "lost",  TRUE,  2, "Wallet", LocCoords(1), LongDescription),
      Item(4, "u1", "lost",  FALSE, NoTimestamp, "", LocNone, <<>>),
      [Item(5, "u1", "lost", FALSE, 2, "Wallet", LocCoords(1), LongDescription)
          EXCEPT !.imageUrl = NoImage] }

Candidates ==
    { Item(11, "u2", "found", FALSE, 2, "Wallet", LocCoords(1), LongDescription),
      Item(12, "u2", "found", FALSE, MaxTimestamp, "Wallet", LocCoords(2), ShortDescription),
      Item(13, "u3", "found", FALSE, NoTimestamp, "Wallet", LocText, <<>>),
      Item(14, "u3", "found", FALSE, NoTimestamp, "", LocCoords(3), ShortDescription),
      Item(15, "u2", "found", TRUE,  2, "Wallet", LocCoords(1), LongDescription),
      Item(16, "u2", "found", FALSE, 2, "Backpack", LocCoords(1), LongDescription),
      Item(17, "u3", "found", FALSE, 1, "Wallet", LocCoords(1), LongDescription),
      Item(18, "u3", "found", FALSE, 2, "Wallet", LocCoords(4), LongDescription),
      Item(19, "u2", "found", FALSE, 2, "Wallet", LocNull, LongDescription),
      Item(20, "u2", "lost",  FALSE, 2, "Wallet", LocCoords(2), ShortDescription),
      Item(21, "u3", "lost",  TRUE,  1, "Wallet", LocCoords(2), ShortDescription),
      Item(22, "u3", "found", FALSE, NoTimestamp, "", LocNone, <<>>) }

RECURSIVE SeqsUpTo(_, _)
SeqsUpTo(S, n) ==
    IF n = 0 THEN {<<>>}
    ELSE LET shorter == SeqsUpTo(S, n - 1)
         IN  shorter \cup {Append(q, x) : q \in {t \in shorter : Len(t) = n - 1}, x \in S}

MatchInit ==
    /\ CallsIdle
    /\ mTarget \in Targets
    /\ mPool \in SeqsUpTo(Candidates, MaxPool)
    /\ mRun = NoRun
    /\ fLost = NoItem /\ fFound = NoItem /\ fResult = NotCalled
    /\ NotifyIdle /\ ItemsIdle
    /\ AnalyzersIdle

\* The primary path: aiMatchingService.findMatches resolves.
FindMatchesAI ==
    /\ ~mRun.done
    /\ \E outcomes \in [1..Len(mPool) -> Outcomes] :
          mRun' = findMatches(mTarget, mPool, outcomes, FALSE)
    /\ UNCHANGED <<callVars, mTarget, mPool, filterVars, notifyVars, itemVars,
                   analyzerVars>>

\* The catch block: aiMatchingService.findMatches rejected.
FindMatchesFallback ==
    /\ ~mRun.done
    /\ mRun' = findMatches(mTarget, mPool, <<>>, TRUE)
    /\ UNCHANGED <<callVars, mTarget, mPool, filterVars, notifyVars, itemVars,
                   analyzerVars>>

MatchNext == FindMatchesAI \/ FindMatchesFallback

SpecMatch == MatchInit /\ [][MatchNext]_vars

(***************************************************************************)
(* The analyzers of one candidate step, from a cold cache.                 *)
(***************************************************************************)
StepItems(id, type, descriptions, imageUrls) ==
    { [Item(id, "u1", type, FALSE, NoTimestamp, "Wallet", LocNone, description)
          EXCEPT !.imageUrl = imageUrl] :
      description \in descriptions, imageUrl \in imageUrls }

StepInit ==
    /\ CallsIdle
    /\ aPair \in [lost : StepItems(1, "lost", {<<>>, ShortDescription},
                                   {NoImage, "http://host/uploads/my wallet.jpg"}),
                  found : StepItems(2, "found", {<<>>, LongDescription},
                                    {"http://host\\uploads\\my%20wallet.jpg",
                                     "http://localhost/public/bag.jpg"})]
    /\ aText = NoCall /\ aVision = NoCall /\ aEval = NoCall
    /\ apiKey \in BOOLEAN
    /\ CachesEmpty
    /\ aiRun = NoAIRun
    /\ fLost = NoItem /\ fFound = NoItem /\ fResult = NotCalled
    /\ mTarget = NoItem /\ mPool = <<>> /\ mRun = NoRun
    /\ NotifyIdle /\ ItemsIdle

CompareDescriptions ==
    /\ aPair # NoPair /\ ~aText.called
    /\ \E resp \in TextResponses :
          aText' = [called |-> TRUE, response |-> resp,
                    result |-> compareDescriptions(aPair.lost, aPair.found, resp)]
    /\ UNCHANGED <<callVars, aPair, aVision, aEval, visionVars, aiRun, filterVars, matchVars,
                   notifyVars, itemVars>>

CompareImages ==
    /\ aPair # NoPair /\ ~aVision.called
    /\ \E outcome1 \in AnalysisOutcomes, outcome2 \in AnalysisOutcomes, firstDone \in {1, 2} :
          LET c == compareImages(analysisCache, apiKey, aPair.lost.imageUrl,
                                 aPair.found.imageUrl, outcome1, outcome2, firstDone, now)
          IN  /\ aVision' = [called |-> TRUE, kinds |-> <<outcome1.kind, outcome2.kind>>,
                              analyses |-> c.analyses, remote |-> c.remote,
                              result |-> c.result]
              /\ analysisCache' = c.cache
    /\ UNCHANGED <<callVars, aPair, aText, aEval, apiKey, icCache, cacheCall, aiRun, filterVars,
                   matchVars, notifyVars, itemVars>>

\* Reached only when neither analyzer threw: an exception would leave the
\* try block of the loop body before evaluateMatch is called.
EvaluateMatch ==
    /\ aText.called /\ aVision.called /\ ~aEval.called
    /\ ~aText.result.threw /\ ~aVision.result.threw
    /\ \E resp \in EvalResponses :
          aEval' = [called |-> TRUE, response |-> resp, result |-> matchEvaluation(resp)]
    /\ UNCHANGED <<callVars, aPair, aText, aVision, visionVars, aiRun, filterVars, matchVars,
                   notifyVars, itemVars>>

StepNext == CompareDescriptions \/ CompareImages \/ EvaluateMatch

SpecStep == StepInit /\ [][StepNext]_vars

(***************************************************************************)
(* The two analysis caches over time: analyses and comparisons arrive      *)
(* half a day apart or more.                                               *)
(***************************************************************************)
CacheUrls ==
    { "http://host/uploads/my wallet.jpg",
      "http://host\\uploads\\my%20wallet.jpg",
      "http://localhost/public/bag.jpg" }

\* The provider outcomes of the cache runs: the failures, and the
\* signatures with a single label.
CacheOutcomes ==
    {ImageUnreadable, AnnotateFails, InvalidResponse}
    \cup {Annotated(data) : data \in {s \in Signatures : Len(s.labels) = 1}}

CacheInit ==
    /\ CallsIdle
    /\ apiKey \in BOOLEAN
    /\ CachesEmpty
    /\ aiRun = NoAIRun
    /\ StepIdle
    /\ fLost = NoItem /\ fFound = NoItem /\ fResult = NotCalled
    /\ mTarget = NoItem /\ mPool = <<>> /\ mRun = NoRun
    /\ NotifyIdle /\ ItemsIdle

AnalyzeCall(service, imageUrl, before, analysis) ==
    [called |-> TRUE, service |-> service, fn |-> "analyzeImage",
     imageUrl |-> imageUrl, at |-> now, before |-> before, analysis |-> analysis]

\* VisionService.getImageAnalysis(imageUrl): the public way into
\* VisionService.analyzeImage.
GetImageAnalysis ==
    /\ \E imageUrl \in CacheUrls, outcome \in CacheOutcomes :
          LET analysis == analyzeImage(analysisCache, apiKey, imageUrl, outcome, now)
          IN  /\ analysisCache' = WriteCache(analysisCache, imageUrl, analysis, now)
              /\ cacheCall' = AnalyzeCall("VisionService", imageUrl,
                                          analysisCache[normalizeUrl(imageUrl)], analysis)
    /\ UNCHANGED <<callVars, apiKey, icCache, stepVars, aiRun, filterVars, matchVars,
                   notifyVars, itemVars>>

\* ImageComparisonService.analyzeImage(imageUrl)
AnalyzeImage ==
    /\ \E imageUrl \in CacheUrls, outcome \in ImageOutcomes :
          LET analysis == analyzeImageIC(icCache, apiKey, imageUrl, outcome, now)
          IN  /\ icCache' = WriteCache(icCache, imageUrl, analysis, now)
              /\ cacheCall' = AnalyzeCall("ImageComparisonService", imageUrl,
                                          icCache[normalizeUrl(imageUrl)], analysis)
    /\ UNCHANGED <<callVars, apiKey, analysisCache, stepVars, aiRun, filterVars, matchVars,
                   notifyVars, itemVars>>

\* ImageComparisonService.compareImages(image1Url, image2Url)
CompareImagesIC ==
    /\ \A url \in NormalizedUrls : Len(icCache[url].data.webEntities) + 2 <= MaxWebEntities
    /\ \E image1Url \in CacheUrls, image2Url \in CacheUrls,
          outcome1 \in ImageOutcomes, outcome2 \in ImageOutcomes, firstDone \in {1, 2} :
          LET c == compareImagesIC(icCache, apiKey, image1Url, image2Url,
                                   outcome1, outcome2, firstDone, now)
          IN  /\ icCache' = c.cache
              /\ cacheCall' = [called |-> TRUE, service |-> "ImageComparisonService",
                               fn |-> "compareImages",
                               imageUrl |-> <<image1Url, image2Url>>, at |-> now]
    /\ UNCHANGED <<callVars, apiKey, analysisCache, stepVars, aiRun, filterVars, matchVars,
                   notifyVars, itemVars>>

HalfDayPasses ==
    /\ now + Hours(12) <= MaxHalfDays * Hours(12)
    /\ now' = now + Hours(12)
    /\ UNCHANGED <<callVars, nextSweep, lastSweep, io, recentNotifications, socketEmits,
                   notificationDb, emitCalls, filterVars, matchVars, itemVars,
                   analyzerVars>>

\* The freshness test of analyzeImage, in both services.
CacheNext == GetImageAnalysis \/ AnalyzeImage \/ HalfDayPasses

SpecCache == CacheInit /\ [][CacheNext]_vars

\* The cache of ImageComparisonService under analyses and comparisons.
ImageCacheNext == AnalyzeImage \/ CompareImagesIC \/ HalfDayPasses

SpecImageCache == CacheInit /\ [][ImageCacheNext]_vars

(***************************************************************************)
(* AIMatchingService.findMatches as to its remote calls: for every         *)
(* candidate that passes the filter, compareDescriptions and compareImages *)
(* under Promise.all, then evaluateMatch.  A call is pending from the      *)
(* moment the request is sent until the provider answers or the request's  *)
(* own timeout fires.                                                      *)
(***************************************************************************)
\* Where compareDescriptions starts: at generateContent, or settled at once
\* when a description is missing.
TextStarts == {"generateContent", "settled"}

\* Where analyzeImage starts: at the download, at the annotate request (a
\* local file), or settled at once (a cache hit, no API key, an unreadable
\* local file).
ImageStarts == {"download", "annotate", "settled"}

\* The awaits of one candidate step: once compareDescriptions and both
\* analyses have settled, evaluateMatch sends its request.
Advance(r) ==
    IF r.pc = "comparing" /\ r.text = "settled"
       /\ r.images[1] = "settled" /\ r.images[2] = "settled"
    THEN [r EXCEPT !.pc = "evaluating"]
    ELSE r

\* The loop body up to its first await, for candidate i.
BeginStep(r, i, text, image1, image2) ==
    Advance([r EXCEPT !.pc = "comparing", !.index = i, !.text = text,
                      !.images = <<image1, image2>>])

\* findMatches(targetItem, potentialMatches) up to its first await;
\* size counts the candidates that pass shouldSkipComparison.
AIRunInit ==
    /\ CallsIdle
    /\ \E size \in 0..MaxCandidates, text \in TextStarts,
          image1 \in ImageStarts, image2 \in ImageStarts :
          aiRun = IF size = 0
                  THEN [NoAIRun EXCEPT !.pc = "returned"]
                  ELSE BeginStep([NoAIRun EXCEPT !.size = size], 1, text, image1, image2)
    /\ StepIdle /\ VisionIdle
    /\ fLost = NoItem /\ fFound = NoItem /\ fResult = NotCalled
    /\ mTarget = NoItem /\ mPool = <<>> /\ mRun = NoRun
    /\ NotifyIdle /\ ItemsIdle

AIRunFrame ==
    UNCHANGED <<callVars, stepVars, visionVars, filterVars, matchVars, notifyVars, itemVars>>

\* this.model.generateContent(prompt) of compareDescriptions resolves or
\* rejects; either way compareDescriptions settles.
CompareDescriptionsAnswers ==
    /\ aiRun.pc = "comparing" /\ aiRun.text = "generateContent"
    /\ aiRun' = Advance([aiRun EXCEPT !.text = "settled"])
    /\ AIRunFrame

\* axios.get(imageUrl, {responseType: 'arraybuffer'}) resolves, and the
\* annotate request is sent, or rejects, and analyzeImage returns null.
DownloadAnswers ==
    /\ aiRun.pc = "comparing"
    /\ \E k \in {1, 2}, next \in {"annotate", "settled"} :
          /\ aiRun.images[k] = "download"
          /\ aiRun' = Advance([aiRun EXCEPT !.images[k] = next])
    /\ AIRunFrame

\* axios.post(annotate, ..., {timeout: 15000}) resolves or rejects.
AnnotateAnswers ==
    /\ aiRun.pc = "comparing"
    /\ \E k \in {1, 2} :
          /\ aiRun.images[k] = "annotate"
          /\ aiRun' = Advance([aiRun EXCEPT !.images[k] = "settled"])
    /\ AIRunFrame

\* The 15000 ms of the annotate request pass without an answer: axios
\* rejects and analyzeImage returns null.
AnnotateTimesOut ==
    /\ aiRun.pc = "comparing"
    /\ \E k \in {1, 2} :
          /\ aiRun.images[k] = "annotate"
          /\ aiRun' = Advance([aiRun EXCEPT !.images[k] = "settled"])
    /\ AIRunFrame

\* this.model.generateContent(prompt) of evaluateMatch resolves or
\* rejects; the candidate is pushed or not, and the loop goes on to the
\* next candidate or returns the sorted matches.
EvaluateMatchAnswers ==
    /\ aiRun.pc = "evaluating"
    /\ \E pushed \in BOOLEAN, text \in TextStarts,
          image1 \in ImageStarts, image2 \in ImageStarts :
          LET r == IF pushed THEN [aiRun EXCEPT !.matches = @ + 1] ELSE aiRun
          IN  aiRun' = IF aiRun.index < aiRun.size
                       THEN BeginStep(r, aiRun.index + 1, text, image1, image2)
                       ELSE [r EXCEPT !.pc = "returned"]
    /\ AIRunFrame

AIRunNext ==
    \/ CompareDescriptionsAnswers
    \/ DownloadAnswers
    \/ AnnotateAnswers
    \/ AnnotateTimesOut
    \/ EvaluateMatchAnswers

SpecAIRun == AIRunInit /\ [][AIRunNext]_vars

\* The event loop runs every timer the code has set; nothing obliges a
\* provider to answer.
SpecAIRunFair == SpecAIRun /\ WF_vars(AnnotateTimesOut)

\* The same run when every provider answers in the end.
SpecAIRunAnswered == SpecAIRun /\ WF_vars(AIRunNext)

(***************************************************************************)
(* item_controller.ts: uploadItem, findPotentialMatches and the            *)
(* find-matches endpoint, over the items collection.                       *)
(***************************************************************************)
HighConfidenceScore == Pt(75)

MatchFound == [type |-> "MATCH_FOUND", matchedItemId |-> 0]

\* itemModel.find({itemType: oppositeType, isResolved: false})
OppositeUnresolved(item, stored) ==
    SelectSeq(stored, LAMBDA c : c.itemType # item.itemType /\ ~c.isResolved)

Significant(matches) == SelectSeq(matches, LAMBDA m : m.confidenceScore >= SignificantScore)
HighConfidence(matches) == SelectSeq(matches, LAMBDA m : m.confidenceScore >= HighConfidenceScore)

RECURSIVE MaxScore(_)
MaxScore(matches) ==
    IF matches = <<>> THEN 0
    ELSE Max(Head(matches).confidenceScore, MaxScore(Tail(matches)))

\* findPotentialMatches(item): st is the notification state; the result
\* holds the state after the call and the significant matches.
\* findPotentialMatches after the awaited matchingService.findMatches.
PotentialMatches(st, ready, item, run, significantMatches, highMatches, at, swept) ==
    IF run.threw THEN [st |-> st, matches |-> <<>>]
    ELSE IF highMatches # <<>>
    THEN [st |-> EmitCall(st, ready, item.userId,
                          [type |-> "MATCH_FOUND", matchedItemId |-> item.id],
                          at, swept, "findPotentialMatches",
                          MaxScore(highMatches)),
          matches |-> significantMatches]
    ELSE [st |-> st, matches |-> significantMatches]

SignificantOf(st, ready, item, run, significantMatches, at, swept) ==
    PotentialMatches(st, ready, item, run, significantMatches,
                     HighConfidence(significantMatches), at, swept)

RunOf(st, ready, item, run, at, swept) ==
    SignificantOf(st, ready, item, run, Significant(run.result), at, swept)

findPotentialMatches(st, ready, item, stored, outcomes, aiRejects, at, swept) ==
    RunOf(st, ready, item,
          findMatches(item, OppositeUnresolved(item, stored), outcomes, aiRejects),
          at, swept)

\* notificationModel.create({userId, type: "MATCH_FOUND", ...})
StoreNotification(st, userId, at) ==
    [st EXCEPT !.db = Append(@, [userId |-> userId, type |-> "MATCH_FOUND", at |-> at])]

\* uploadItem: for (const match of potentialMatches) { emitNotification(owner); create }
RECURSIVE NotifyMatchOwners(_, _, _, _, _)
NotifyMatchOwners(st, ready, matches, at, swept) ==
    IF matches = <<>> THEN st
    ELSE LET match == Head(matches)
             sent == EmitCall(st, ready, match.item.userId, MatchFound, at, swept,
                              "uploadItem:owner", match.confidenceScore)
         IN  NotifyMatchOwners(StoreNotification(sent, match.item.userId, at),
                               ready, Tail(matches), at, swept)

\* uploadItem: the notification to the uploader, when there is any match.
NotifyUploader(st, ready, savedItem, matches, at, swept) ==
    IF matches = <<>> THEN st
    ELSE StoreNotification(
            EmitCall(st, ready, savedItem.userId, MatchFound, at, swept,
                     "uploadItem:uploader", matches[1].confidenceScore),
            savedItem.userId, at)

Scores(matches) == [k \in 1..Len(matches) |-> matches[k].confidenceScore]
Ids(matches) == [k \in 1..Len(matches) |-> matches[k].item.id]

\* What an upload may hold: items reach the collection without a timestamp
\* field and with "" for a missing location.
UploadFields ==
    [userId : Users, itemType : {"lost", "found"}, category : {"Wallet"},
     location : {LocCoords(1), LocText}, description : {ShortDescription}]

NewItem(id, f) ==
    Item(id, f.userId, f.itemType, FALSE, NoTimestamp, f.category, f.location,
         f.description)

UploadInit ==
    /\ CallsIdle
    /\ NotifyIdle /\ ItemsIdle
    /\ fLost = NoItem /\ fFound = NoItem /\ fResult = NotCalled
    /\ mTarget = NoItem /\ mPool = <<>> /\ mRun = NoRun
    /\ AnalyzersIdle

SetNotifyState(st) ==
    /\ recentNotifications' = st.recent
    /\ socketEmits' = st.emits
    /\ notificationDb' = st.db
    /\ emitCalls' = st.calls

\* uploadItem after findPotentialMatches: the notifications to the owners
\* of the matches and to the uploader, and the 201 answer.
Uploaded(savedItem, found) ==
    /\ SetNotifyState(
          NotifyUploader(
              NotifyMatchOwners(found.st, io, found.matches, now, lastSweep),
              io, savedItem, found.matches, now, lastSweep))
    /\ response' = [status |-> 201,
                    matchResults |-> Scores(found.matches),
                    matchItems |-> Ids(found.matches),
                    request |-> Request("uploadItem", savedItem.id, 0, savedItem.userId)]

\* The find-matches endpoint after findPotentialMatches.
MatchesAbove70(found, above70) ==
    /\ SetNotifyState(found.st)
    /\ response' = [status |-> 200,
                    matchResults |-> Scores(above70),
                    matchItems |-> Ids(above70),
                    request |-> Request("findMatches", 0, 0, "")]

Found(found) ==
    MatchesAbove70(found, SelectSeq(found.matches, LAMBDA m : m.confidenceScore > Pt(70)))

\* uploadItem.  A request without userId, imageUrl or a valid itemType is
\* answered 400 and one of an unknown user 404, before anything is stored.
UploadItem ==
    /\ requests < MaxRequests
    /\ requests' = requests + 1
    /\ UNCHANGED <<callVars, now, nextSweep, lastSweep, io, filterVars, matchVars,
                   analyzerVars>>
    /\ \/ /\ \E status \in {400, 404} :
                response' = [status |-> status, matchResults |-> <<>>,
                             matchItems |-> <<>>,
                             request |-> Request("uploadItem", 0, 0, "")]
          /\ UNCHANGED <<items, recentNotifications, socketEmits, notificationDb,
                         emitCalls>>
       \/ /\ Len(items) < MaxItems
          /\ \E f \in UploadFields, aiRejects \in BOOLEAN :
                LET savedItem == NewItem(Len(items) + 1, f)
                    stored == Append(items, savedItem)
                    pool == OppositeUnresolved(savedItem, stored)
                IN  \E outcomes \in [1..Len(pool) -> Outcomes] :
                       /\ items' = stored
                       /\ Uploaded(savedItem,
                                   findPotentialMatches(NotifyState, io, savedItem,
                                       stored, outcomes, aiRejects, now, lastSweep))

\* GET find-matches/:itemId: 404 for an unknown item; otherwise
\* findPotentialMatches, then the matches above 70.
FindMatchesRequest ==
    /\ requests < MaxRequests
    /\ requests' = requests + 1
    /\ UNCHANGED <<callVars, items, now, nextSweep, lastSweep, io, filterVars, matchVars,
                   analyzerVars>>
    /\ \/ /\ response' = [status |-> 404, matchResults |-> <<>>, matchItems |-> <<>>,
                          request |-> Request("findMatches", 0, 0, "")]
          /\ UNCHANGED <<recentNotifications, socketEmits, notificationDb, emitCalls>>
       \/ \E k \in 1..Len(items), aiRejects \in BOOLEAN :
             LET item == items[k]
                 pool == OppositeUnresolved(item, items)
             IN  \E outcomes \in [1..Len(pool) -> Outcomes] :
                    Found(findPotentialMatches(NotifyState, io, item, items,
                                               outcomes, aiRejects, now, lastSweep))

UploadNext == InitSocket \/ UploadItem \/ FindMatchesRequest

SpecUpload == UploadInit /\ [][UploadNext]_vars

(***************************************************************************)
(* item_controller.ts: resolveItem and updateItem, next to the handlers    *)
(* that run a matching.                                                    *)
(***************************************************************************)
\* The users a request may name: the owners and a stranger.
Requesters == Users \cup {"u9"}

\* What an update request may hold; an empty value is an absent field.
UpdateBodies ==
    [userId : Requesters, description : {<<>>, LongDescription},
     location : {LocNone, LocCoords(2)}, category : {"", "Backpack"},
     isResolved : {FALSE}]

\* A variant of updateItem that copies every field of the request.
updateItemEveryField(item, body) ==
    [item EXCEPT !.description = body.description, !.location = body.location,
                 !.category = body.category, !.isResolved = body.isResolved]

\* updateItem, as to the stored item: description, location and category
\* are replaced by the request's value when it holds one.
updateItem(item, body) ==
    [item EXCEPT
        !.description = IF body.description # <<>> THEN body.description ELSE @,
        !.location = IF body.location # LocNone THEN body.location ELSE @,
        !.category = IF body.category # "" THEN body.category ELSE @]

\* item.isResolved = true; await item.save()
MarkResolved(stored, k) == [stored EXCEPT ![k].isResolved = TRUE]

ItemsFrame ==
    UNCHANGED <<callVars, now, nextSweep, lastSweep, io, recentNotifications, socketEmits,
                notificationDb, emitCalls, filterVars, matchVars, analyzerVars>>

Answer(request, status) ==
    [status |-> status, matchResults |-> <<>>, matchItems |-> <<>>,
     request |-> request]

\* A variant of the ownership test that lets every requester through.
OwnsWhoeverAsks(item, userId) == TRUE

\* item.userId !== req.body.userId, negated
Owns(item, userId) == item.userId = userId

\* A variant of resolveItem that leaves the matched item alone.
resolveItemOnly(stored, k, matched) == MarkResolved(stored, k)

\* resolveItem, as to the stored items: the item is saved as resolved and,
\* when its matchedItemId names a stored item, that item too.
resolveItem(stored, k, matched) ==
    IF matched = 0 THEN MarkResolved(stored, k)
    ELSE MarkResolved(MarkResolved(stored, k), matched)

\* resolveItem.  matched is the stored item that item.matchedItemId names,
\* 0 for none.  With a matched item the handler goes on to create a
\* notification of type "MATCH_CONFIRMED", which the notification schema
\* rejects: the request is answered 500 after both items are saved.
ResolveItem ==
    /\ requests < MaxRequests
    /\ requests' = requests + 1
    /\ ItemsFrame
    /\ \/ /\ \E userId \in Requesters :
                response' = Answer(Request("resolveItem", 0, 0, userId), 404)
          /\ UNCHANGED items
       \/ \E k \in 1..Len(items), matched \in 0..Len(items), userId \in Requesters :
             LET item == items[k]
                 request == Request("resolveItem", k, matched, userId)
             IN  IF ~Owns(item, userId) /\ (matched = 0 \/ ~Owns(items[matched], userId))
                 THEN /\ response' = Answer(request, 403)
                      /\ UNCHANGED items
                 ELSE /\ items' = resolveItem(items, k, matched)
                      /\ response' = Answer(request, IF matched = 0 THEN 200 ELSE 500)

\* resolveItem as it stood before the confirmation notice: only the owner
\* of the item may resolve it, and the request is answered 200 with or
\* without a matched item.
ResolveItemEarlier ==
    /\ requests < MaxRequests
    /\ requests' = requests + 1
    /\ ItemsFrame
    /\ \/ /\ \E userId \in Requesters :
                response' = Answer(Request("resolveItem", 0, 0, userId), 404)
          /\ UNCHANGED items
       \/ \E k \in 1..Len(items), matched \in 0..Len(items), userId \in Requesters :
             LET request == Request("resolveItem", k, matched, userId)
             IN  IF ~Owns(items[k], userId)
                 THEN /\ response' = Answer(request, 403)
                      /\ UNCHANGED items
                 ELSE /\ items' = resolveItem(items, k, matched)
                      /\ response' = Answer(request, 200)

\* updateItem
UpdateItem ==
    /\ requests < MaxRequests
    /\ requests' = requests + 1
    /\ ItemsFrame
    /\ \/ /\ \E userId \in Requesters :
                response' = Answer(Request("updateItem", 0, 0, userId), 404)
          /\ UNCHANGED items
       \/ \E k \in 1..Len(items), body \in UpdateBodies :
             LET request == Request("updateItem", k, 0, body.userId)
             IN  IF ~Owns(items[k], body.userId)
                 THEN /\ response' = Answer(request, 403)
                      /\ UNCHANGED items
                 ELSE /\ items' = [items EXCEPT ![k] = updateItem(@, body)]
                      /\ response' = Answer(request, 200)

\* itemModel.findByIdAndDelete(req.params.id)
findByIdAndDelete(stored, k) ==
    SubSeq(stored, 1, k - 1) \o SubSeq(stored, k + 1, Len(stored))

\* deleteItem
DeleteItem ==
    /\ requests < MaxRequests
    /\ requests' = requests + 1
    /\ ItemsFrame
    /\ \/ /\ \E userId \in Requesters :
                response' = Answer(Request("deleteItem", 0, 0, userId), 404)
          /\ UNCHANGED items
       \/ \E k \in 1..Len(items), userId \in Requesters :
             LET request == Request("deleteItem", k, 0, userId)
             IN  IF ~Owns(items[k], userId)
                 THEN /\ response' = Answer(request, 403)
                      /\ UNCHANGED items
                 ELSE /\ items' = findByIdAndDelete(items, k)
                      /\ response' = Answer(request, 200)

ResolveNext == UploadItem \/ FindMatchesRequest \/ ResolveItem \/ UpdateItem

SpecResolve == UploadInit /\ [][ResolveNext]_vars

(***************************************************************************)
(* The handlers that act on one stored item, over a collection that is     *)
(* already there: resolveItem in both its versions, updateItem and         *)
(* deleteItem.                                                             *)
(***************************************************************************)
StoredItem(id, user, resolved) ==
    Item(id, user, IF id = 1 THEN "lost" ELSE "found", resolved, NoTimestamp,
         "Wallet", LocCoords(1), ShortDescription)

Collections ==
    UNION {[1..n -> [userId : Users, isResolved : BOOLEAN]] : n \in 0..MaxItems}

OwnerInit ==
    /\ CallsIdle
    /\ NotifyIdle
    /\ \E c \in Collections :
          items = [k \in 1..Len(c) |-> StoredItem(k, c[k].userId, c[k].isResolved)]
    /\ requests = 0 /\ response = NoResponse
    /\ fLost = NoItem /\ fFound = NoItem /\ fResult = NotCalled
    /\ mTarget = NoItem /\ mPool = <<>> /\ mRun = NoRun
    /\ AnalyzersIdle

\* One behaviour holds MaxHandled requests to these handlers.
Handle(request) == requests < MaxHandled /\ request

OwnerNext ==
    \/ Handle(ResolveItem)
    \/ Handle(ResolveItemEarlier)
    \/ Handle(UpdateItem)
    \/ Handle(DeleteItem)

SpecOwner == OwnerInit /\ [][OwnerNext]_vars

(***************************************************************************)
(* ImageComparisonService.calculateTextSimilarity.  A text is the sequence *)
(* of its whitespace-separated words, <<>> the empty string; the result is *)
(* the fraction the function returns.                                      *)
(***************************************************************************)
MaxWords == 3

RawWords == {"Red", "red", "bag!", "my", "--"}

Texts == SeqsUpTo(RawWords, MaxWords)

\* word.toLowerCase().replace(/[^\w\s]/g, '')
NormalizeWord(word) ==
    CASE word = "Red" -> "red"
      [] word = "bag!" -> "bag"
      [] word = "--" -> ""
      [] OTHER -> word

\* .trim(): the empty words at both ends go, those between words stay as
\* the doubled blank they leave in the string.
RECURSIVE TrimStart(_)
TrimStart(words) ==
    IF words # <<>> /\ Head(words) = "" THEN TrimStart(Tail(words)) ELSE words

RECURSIVE TrimEnd(_)
TrimEnd(words) ==
    IF words # <<>> /\ words[Len(words)] = ""
    THEN TrimEnd(SubSeq(words, 1, Len(words) - 1))
    ELSE words

NormalizeText(text) ==
    TrimEnd(TrimStart([k \in 1..Len(text) |-> NormalizeWord(text[k])]))

\* normalized.split(/\s+/).filter(word => word.length > 2)
LongWords(normalized) == SelectSeq(normalized, LAMBDA word : Len(word) > 2)

\* commonWords.length / uniqueWords.size, as numerator and denominator
Quotient(num, den) == [num |-> num, den |-> den]

calculateTextSimilarity(text1, text2) ==
    IF text1 = <<>> \/ text2 = <<>> THEN Quotient(0, 1)
    ELSE LET normalized1 == NormalizeText(text1)
             normalized2 == NormalizeText(text2)
             words1 == LongWords(normalized1)
             words2 == LongWords(normalized2)
             commonWords == SelectSeq(words1, LAMBDA word : word \in SeqRange(words2))
             uniqueWords == SeqRange(words1) \cup SeqRange(words2)
         IN  IF normalized1 = normalized2 THEN Quotient(1, 1)
             ELSE IF words1 = <<>> \/ words2 = <<>> THEN Quotient(0, 1)
             ELSE Quotient(Len(commonWords), Cardinality(uniqueWords))

SimilarityInit ==
    /\ icCall \in [called : {FALSE}, text1 : Texts, text2 : Texts, result : {Quotient(0, 1)}]
    /\ tasks = <<>> /\ roots = <<>>
    /\ userDoc = NoUser /\ authReqs = <<>>
    /\ fLost = NoItem /\ fFound = NoItem /\ fResult = NotCalled
    /\ mTarget = NoItem /\ mPool = <<>> /\ mRun = NoRun
    /\ NotifyIdle /\ ItemsIdle
    /\ AnalyzersIdle

CalculateTextSimilarity ==
    /\ ~icCall.called
    /\ icCall' = [icCall EXCEPT !.called = TRUE,
                                !.result = calculateTextSimilarity(icCall.text1, icCall.text2)]
    /\ UNCHANGED <<tasks, roots, userDoc, authReqs, filterVars, matchVars,
                   notifyVars, itemVars, analyzerVars>>

SimilarityNext == CalculateTextSimilarity

SpecSimilarity == SimilarityInit /\ [][SimilarityNext]_vars

(***************************************************************************)
(* ImageComparisonService: the corrections of misidentified objects, in    *)
(* postProcessAnalysisResult and in the comparison stage of                *)
(* compareImages.  An object is its name and its score in hundredths; the  *)
(* terms are those of a small vocabulary.                                  *)
(***************************************************************************)
Object(name, score) == [name |-> name, score |-> score]

\* lowerTerm.includes('speaker') || ... || lowerTerm.includes('jbl')
SpeakerTerms == {"Loudspeaker", "Speaker", "JBL speaker", "Stereo"}
\* lowerTerm.includes('headphone') || ... || lowerTerm.includes('headset')
HeadphoneTerms == {"Headphones", "Headset"}
\* lowerTerm.includes('camera') || ... || lowerTerm.includes('photography')
CameraTerms == {"Camera", "Photography"}

\* [...labels, ...webEntities, ...bestGuessLabels].filter(...)
Evidence(data, terms) ==
    SelectSeq(data.labels \o data.webEntities \o data.bestGuessLabels,
              LAMBDA term : term \in terms)

\* obj.name.toLowerCase() === 'wallet' || obj.name.toLowerCase() === 'purse'
WalletNames == {"Wallet", "Purse"}
\* obj.name.toLowerCase().includes('speaker')
SpeakerNames == {"Loudspeaker", "Speaker"}

HasObject(data, names) == \E k \in 1..Len(data.objects) : data.objects[k].name \in names

\* A variant of the wallet test that asks for a speaker term.
WalletIsSpeakerOnEvidence(data) ==
    HasObject(data, WalletNames) /\ Evidence(data, SpeakerTerms) # <<>>

\* hasWalletObjects && (speakerEvidence.length >= 1 || hasLoudspeakerLabel || hasBlackColor)
WalletIsSpeaker(data) ==
    /\ HasObject(data, WalletNames)
    /\ \/ Evidence(data, SpeakerTerms) # <<>>
       \/ hasSpeakerLabel(data)
       \/ hasBlackColor(data)

\* The wallet correction: wallet and purse objects become Loudspeaker at
\* 0.95, a Loudspeaker object is added if there is still none, and the
\* label Loudspeaker is added if no label names a speaker.
CorrectWallet(data) ==
    LET renamed ==
            [k \in 1..Len(data.objects) |->
                IF data.objects[k].name \in WalletNames THEN Object("Loudspeaker", 95)
                ELSE data.objects[k]]
        objects ==
            IF \E k \in 1..Len(renamed) : renamed[k].name \in SpeakerNames THEN renamed
            ELSE Append(renamed, Object("Loudspeaker", 90))
        labels ==
            IF \E k \in 1..Len(data.labels) : data.labels[k] \in SpeakerTerms THEN data.labels
            ELSE Append(data.labels, "Loudspeaker")
    IN  [data EXCEPT !.objects = objects, !.labels = labels]

\* An object is added on two terms of evidence when no object has the name.
AddMissing(data, terms, name) ==
    IF Len(Evidence(data, terms)) >= 2
       /\ ~\E k \in 1..Len(data.objects) : data.objects[k].name = name
    THEN [data EXCEPT !.objects = Append(@, Object(name, 85))]
    ELSE data

\* Math.max(obj.score, 0.95) for every speaker object
BoostSpeakers(data) ==
    [data EXCEPT !.objects =
        [k \in 1..Len(@) |->
            IF @[k].name \in SpeakerNames THEN Object(@[k].name, Max(@[k].score, 95))
            ELSE @[k]]]

postProcessAnalysisResult(analysisResult) ==
    LET wallet == IF WalletIsSpeaker(analysisResult) THEN CorrectWallet(analysisResult)
                  ELSE analysisResult
        headphone == AddMissing(wallet, HeadphoneTerms, "Headphone")
        camera == AddMissing(headphone, CameraTerms, "Camera")
    IN  BoostSpeakers(camera)

\* compareImages, the comparison stage: the objects of an image whose
\* objects hold a wallet while its labels hold a speaker.
correctedObjects(imageData) ==
    IF (\E k \in 1..Len(imageData.objects) : imageData.objects[k].name = "Wallet")
       /\ hasSpeakerLabel(imageData)
    THEN [k \in 1..Len(imageData.objects) |->
            IF imageData.objects[k].name = "Wallet" THEN Object("Loudspeaker", 95)
            ELSE imageData.objects[k]]
    ELSE imageData.objects

\* The analyses the corrections are run on.
AnalysisResults ==
    [labels : {<<>>, <<"Leather">>, <<"Loudspeaker">>, <<"Headphones", "Camera">>},
     objects : {<<>>, <<Object("Wallet", 60)>>, <<Object("Bag", 70), Object("Purse", 50)>>,
                <<Object("Speaker", 40)>>},
     webEntities : {<<>>, <<"Stereo">>, <<"Headset", "Photography">>},
     bestGuessLabels : {<<>>, <<"Camera">>},
     dominantColors : {<<>>, <<Colour(20, 20, 25, 60)>>, <<Colour(120, 80, 40, 80)>>}]

CorrectionInit ==
    /\ icCall \in [called : {FALSE}, fn : {"none"}, data : AnalysisResults, objects : {<<>>}]
    /\ tasks = <<>> /\ roots = <<>>
    /\ userDoc = NoUser /\ authReqs = <<>>
    /\ fLost = NoItem /\ fFound = NoItem /\ fResult = NotCalled
    /\ mTarget = NoItem /\ mPool = <<>> /\ mRun = NoRun
    /\ NotifyIdle /\ ItemsIdle
    /\ AnalyzersIdle

CorrectionFrame ==
    UNCHANGED <<tasks, roots, userDoc, authReqs, filterVars, matchVars, notifyVars,
                itemVars, analyzerVars>>

PostProcessAnalysisResult ==
    /\ ~icCall.called
    /\ icCall' = [icCall EXCEPT !.called = TRUE, !.fn = "postProcessAnalysisResult",
                                !.objects = postProcessAnalysisResult(icCall.data).objects]
    /\ CorrectionFrame

CompareStageCorrection ==
    /\ ~icCall.called
    /\ icCall' = [icCall EXCEPT !.called = TRUE, !.fn = "compareImages",
                                !.objects = correctedObjects(icCall.data)]
    /\ CorrectionFrame

CorrectionNext == PostProcessAnalysisResult \/ CompareStageCorrection

SpecCorrection == CorrectionInit /\ [][CorrectionNext]_vars

(***************************************************************************)
(* Properties of the notification cooldown (SpecNotify).                   *)
(***************************************************************************)
CallPairs == {p \in (1..Len(emitCalls)) \X (1..Len(emitCalls)) :
                 p[1] < p[2] /\ emitCalls[p[1]].userId = emitCalls[p[2]].userId}

\* C3: of two emitNotification calls for one user within the 5-second
\* window, the first is delivered and the second is suppressed, whatever
\* the notifications hold.
C3_OneDeliveryPerWindow ==
    /\ \A p \in CallPairs :
          ( /\ emitCalls[p[1]].delivered
            /\ emitCalls[p[2]].at - emitCalls[p[1]].at <= NOTIFICATION_COOLDOWN )
          => ~emitCalls[p[2]].delivered
    /\ \A k \in 1..Len(emitCalls) :
          ( /\ emitCalls[k].ready
            /\ \A j \in 1..(k - 1) :
                  emitCalls[j].userId = emitCalls[k].userId => ~emitCalls[j].ready )
          => emitCalls[k].delivered

\* Two calls for u1, two seconds apart, the first delivered and the second
\* not: one socket emission in all.
C3_Witness ==
    /\ Len(emitCalls) = 2
    /\ emitCalls[1].userId = "u1" /\ emitCalls[2].userId = "u1"
    /\ emitCalls[1].ready /\ emitCalls[2].ready
    /\ emitCalls[2].at - emitCalls[1].at = Seconds(2)
    /\ emitCalls[1].delivered /\ ~emitCalls[2].delivered
    /\ Len(socketEmits) = 1

\* C4: a window expires: no key outlives a sweep that ran more than five
\* seconds after the key was written, and the next call for the user made
\* after such a sweep is delivered.
C4_WindowExpires ==
    /\ \A u \in Users : \A key \in recentNotifications[u] :
          ~(lastSweep - key.at > NOTIFICATION_COOLDOWN)
    /\ \A p \in CallPairs :
          ( /\ emitCalls[p[1]].delivered
            /\ emitCalls[p[2]].ready
            /\ \A k \in (p[1] + 1)..(p[2] - 1) :
                  emitCalls[k].userId = emitCalls[p[1]].userId => ~emitCalls[k].delivered
            /\ emitCalls[p[2]].lastSweep - emitCalls[p[1]].at > NOTIFICATION_COOLDOWN )
          => emitCalls[p[2]].delivered

(***************************************************************************)
(* Properties of the item handlers (SpecUpload).                           *)
(***************************************************************************)
\* C5: a notification is only ever emitted for a match whose score is at
\* least 75 points; a match scoring in [55, 75) is returned but reaches
\* neither the uploader nor the matched item's owner.
C5_NotifyOnlyHighConfidence ==
    \A k \in 1..Len(emitCalls) :
        emitCalls[k].delivered => emitCalls[k].score >= Pt(75)

(***************************************************************************)
(* Properties of a matching run (SpecMatch).                               *)
(***************************************************************************)
ResultIdx == {mRun.result[k].idx : k \in 1..Len(mRun.result)}
PairSkip(i) ==
    shouldSkipComparison(LostOf(mTarget, mPool[i]), FoundOf(mTarget, mPool[i]))

C2_SortedNonIncreasing ==
    mRun.done =>
        \A k \in 1..(Len(mRun.result) - 1) :
            mRun.result[k].confidenceScore >= mRun.result[k + 1].confidenceScore

\* A run whose two matches were pushed in ascending score order and are
\* returned the other way round.
C2_Witness ==
    /\ mRun.done /\ Len(mRun.result) = 2
    /\ mRun.result[1].idx > mRun.result[2].idx
    /\ mRun.result[1].confidenceScore > mRun.result[2].confidenceScore

\* C6: when every provider call of a run fails, findMatches returns what
\* the fallback scorer yields for the whole pool.
C6_FallbackWhenProvidersDown ==
    ( /\ mRun.done
      /\ mRun.compared # {}
      /\ \A i \in mRun.compared : ~mRun.outcome[i].up )
    => mRun.result = FallbackFindMatches(mTarget, mPool).matches

\* C7: on the AI path an exception raised for one candidate is caught for
\* that candidate only: the run returns normally, the candidate is left
\* out, and every other candidate that passes the filter is scored and is
\* returned exactly when its score reaches 55 points.
C7_CandidateErrorIsLocal ==
    (mRun.done /\ mRun.path = "ai") =>
        /\ ~mRun.threw
        /\ \A i \in 1..Len(mPool) :
              /\ PairSkip(i).threw =>
                    i \in mRun.caught /\ i \notin mRun.scored /\ i \notin ResultIdx
              /\ (~PairSkip(i).threw /\ ~PairSkip(i).value) =>
                    /\ i \in mRun.scored
                    /\ i \in ResultIdx <=> evaluateMatch(mRun.outcome[i]) >= Pt(55)

\* The first candidate threw and the second one is returned.
C7_Witness ==
    /\ mRun.done /\ mRun.path = "ai" /\ Len(mPool) = 2
    /\ mRun.caught = {1}
    /\ ResultIdx = {2}

\* C8: a candidate of the target's own itemType is never compared, scored
\* or returned.
C8_OnlyOppositeTypesScored ==
    mRun.done =>
        \A i \in mRun.compared \cup mRun.scored \cup ResultIdx :
            mPool[i].itemType # mTarget.itemType

\* C9: findMatches never returns a resolved candidate, and for a resolved
\* target it returns the empty list without scoring any candidate.
C9_ResolvedExcluded ==
    mRun.done =>
        /\ \A k \in 1..Len(mRun.result) : ~mRun.result[k].item.isResolved
        /\ mTarget.isResolved =>
              mRun.result = <<>> /\ mRun.scored = {} /\ mRun.compared = {}

\* A resolved target run against a pool holding an unresolved found item
\* that the provider rates at 100 points.
C9_Witness ==
    /\ mRun.done /\ mRun.path = "ai" /\ mTarget.isResolved
    /\ \E i \in 1..Len(mPool) :
          /\ ~mPool[i].isResolved /\ mPool[i].itemType # mTarget.itemType
          /\ mRun.outcome[i] = ProviderScore(Pt(150))
    /\ \E i \in 1..Len(mPool) : mPool[i].isResolved
    /\ mRun.result = <<>>

\* An item without category, location and description.
FieldsAbsent(item) ==
    item.category = "" /\ item.location.kind = "none" /\ item.description = <<>>

\* C13: every score the fallback scorer computes lies in [0, 100], and it
\* is 0 for a pair of items that both lack category, location and
\* description.
C13_FallbackScoreInRange ==
    (mRun.done /\ mRun.path = "fallback") =>
        \A e \in mRun.scoreOf :
            /\ e[2] >= 0 /\ e[2] <= Pt(100)
            /\ (FieldsAbsent(mTarget) /\ FieldsAbsent(mPool[e[1]])) => e[2] = 0

\* A fallback run that scored a pair at the full 100 points: same
\* category, same place, five shared words.
C13_Witness ==
    /\ mRun.done /\ mRun.path = "fallback" /\ ~mRun.threw
    /\ \E e \in mRun.scoreOf : e[2] = Pt(100)

\* C19: a run whose target item has no image reference returns an empty
\* list without filtering, comparing or scoring any candidate.
C19_TargetWithoutImageShortCircuits ==
    (mRun.done /\ mTarget.imageUrl = NoImage) =>
        /\ ~mRun.threw
        /\ mRun.result = <<>>
        /\ mRun.compared = {}
        /\ mRun.scored = {}
        /\ mRun.caught = {}

(***************************************************************************)
(* Properties of the candidate filter (SpecFilter).                        *)
(***************************************************************************)
Rule1 == fLost.isResolved \/ fFound.isResolved
Rule2 ==
    /\ fLost.timestamp \in 1..MaxTimestamp /\ fFound.timestamp \in 1..MaxTimestamp
    /\ fFound.timestamp < fLost.timestamp
Rule3 == fLost.category # "" /\ fFound.category # "" /\ fLost.category # fFound.category
Rule4 ==
    /\ fLost.location.kind = "coords" /\ fFound.location.kind = "coords"
    /\ HaversineMetres[fLost.location.pt][fFound.location.pt] > 100000

SkipReturnedTrue == fResult.called /\ ~fResult.threw /\ fResult.value

\* C10: shouldSkipComparison returns true if and only if one of the four
\* reject rules fires, and each rule alone makes it return true.
C10_SkipIffSomeRuleFires ==
    fResult.called =>
        /\ SkipReturnedTrue <=> (Rule1 \/ Rule2 \/ Rule3 \/ Rule4)
        /\ (Rule1 /\ ~Rule2 /\ ~Rule3 /\ ~Rule4) => SkipReturnedTrue
        /\ (~Rule1 /\ Rule2 /\ ~Rule3 /\ ~Rule4) => SkipReturnedTrue
        /\ (~Rule1 /\ ~Rule2 /\ Rule3 /\ ~Rule4) => SkipReturnedTrue
        /\ (~Rule1 /\ ~Rule2 /\ ~Rule3 /\ Rule4) => SkipReturnedTrue

\* Only the distance rule fires, and the pair is skipped.
C10_Witness ==
    /\ SkipReturnedTrue
    /\ ~Rule1 /\ ~Rule2 /\ ~Rule3 /\ Rule4

\* A pair in which at least one side has no coordinates.
SomeLocationUnknown ==
    fLost.location.kind # "coords" \/ fFound.location.kind # "coords"

\* C11: when a location of the pair is absent, null, free text or an object
\* without numeric lat/lng, shouldSkipComparison returns normally and does
\* not reject the pair on distance: it returns true only if one of the
\* rules 1 to 3 fires.
C11_UnknownLocationNeverRejectsOrThrows ==
    (fResult.called /\ SomeLocationUnknown) =>
        /\ ~fResult.threw
        /\ fResult.value => (Rule1 \/ Rule2 \/ Rule3)

(***************************************************************************)
(* Properties of the analyzers of one candidate step (SpecStep).           *)
(***************************************************************************)
\* The provider answered evaluateMatch with an object of the expected shape.
EvalWellFormed ==
    /\ aEval.response.kind = "object"
    /\ aEval.response.confidenceScore.isNumber
    /\ aEval.response.reasoning.isString

\* C12: the confidenceScore evaluateMatch returns lies in [0, 100]: a
\* provider score below 0 is returned as 0, one above 100 as 100, and every
\* failure (rejected call, text that is not JSON, wrong field types)
\* returns 0.
C12_ConfidenceScoreClamped ==
    aEval.called =>
        /\ ~aEval.result.threw
        /\ aEval.result.confidenceScore >= 0
        /\ aEval.result.confidenceScore <= Pt(100)
        /\ (EvalWellFormed /\ aEval.response.confidenceScore.value < 0)
              => aEval.result.confidenceScore = 0
        /\ (EvalWellFormed /\ aEval.response.confidenceScore.value > Pt(100))
              => aEval.result.confidenceScore = Pt(100)
        /\ ~EvalWellFormed => aEval.result.confidenceScore = 0

\* The provider answered 150 points and evaluateMatch returned 100.
C12_Witness ==
    /\ aEval.called /\ EvalWellFormed
    /\ aEval.response.confidenceScore.value = Pt(150)
    /\ aEval.result.confidenceScore = Pt(100)

\* C14: the similarityScore compareImages returns lies in [0, 100] for
\* signatures whose confidences lie in [0, 1], also when several labels or
\* objects of one image fuzzy-match a single one of the other.
C14_SimilarityScoreInRange ==
    aVision.called =>
        /\ aVision.result.similarityScore >= 0
        /\ aVision.result.similarityScore <= 100

\* The provider answered compareDescriptions with an object of the expected
\* shape.
TextWellFormed ==
    /\ aText.response.kind = "object"
    /\ aText.response.isTextLikelyMatch.isBoolean
    /\ aText.response.reason.isString
    /\ aText.response.confidence.isNumber

DiagnosticReasons ==
    {"One or both items missing description",
     "Error: Invalid response format from AI",
     "Error processing text comparison"}

\* The Vision provider failed for one of the two images, or there is no
\* API key.
VisionFailed ==
    ~apiKey \/ \E k \in 1..2 : aVision.kinds[k] # "annotated"

\* C15: no analyzer call throws into the orchestrator.  On a provider
\* error, a missing API key or a malformed answer compareImages returns
\* similarityScore 0, compareDescriptions returns isTextLikelyMatch = false
\* with a diagnostic reason, and evaluateMatch returns score 0 with empty
\* reasoning.
C15_AnalyzersNeverThrow ==
    /\ aText.called =>
          /\ ~aText.result.threw
          /\ ~TextWellFormed =>
                /\ ~aText.result.isTextLikelyMatch
                /\ aText.result.reason \in DiagnosticReasons
    /\ aVision.called =>
          /\ ~aVision.result.threw
          /\ VisionFailed => aVision.result.similarityScore = 0
    /\ aEval.called =>
          /\ ~aEval.result.threw
          /\ ~EvalWellFormed =>
                aEval.result.confidenceScore = 0 /\ aEval.result.reasoning = ""

\* All three providers failed for a pair with descriptions and images, and
\* the step still ran to the end: evaluateMatch was called and returned 0.
C15_Witness ==
    /\ aPair.lost.description # <<>> /\ aPair.found.description # <<>>
    /\ aPair.lost.imageUrl # NoImage
    /\ aText.called /\ aText.response.kind = "rejects"
    /\ aText.result.reason = "Error processing text comparison"
    /\ aVision.called /\ apiKey /\ aVision.kinds = <<"annotateFails", "invalidResponse">>
    /\ aVision.result.similarityScore = 0
    /\ aEval.called /\ aEval.response.kind = "text"
    /\ aEval.result.confidenceScore = 0

----------------------------------------------------------------------------
\* Properties of the analysis caches (SpecCache, SpecImageCache)

\* The entry the last analyzeImage call found is younger than 24 hours.
FoundFresh ==
    /\ cacheCall.before.cached
    /\ cacheCall.at - cacheCall.before.timestamp < Hours(24)

\* C16: analyzeImage, in VisionService and in ImageComparisonService,
\* returns the cached signature without a remote request exactly when the
\* cache holds an entry for the normalized reference that is younger than
\* 24 hours; with an entry aged 24 hours or more the call does not answer
\* from the cache: it goes to the provider, or returns its empty value when
\* it cannot.
C16_CacheHitExactlyWhenFresh ==
    (cacheCall.called /\ cacheCall.fn = "analyzeImage") =>
        /\ cacheCall.analysis.hit <=> FoundFresh
        /\ cacheCall.analysis.hit =>
              /\ cacheCall.analysis.remote = 0
              /\ ~cacheCall.analysis.isNull
              /\ cacheCall.analysis.data = cacheCall.before.data
        /\ (~FoundFresh /\ cacheCall.analysis.remote = 0) =>
              \/ cacheCall.analysis.isNull
              \/ cacheCall.analysis.data = EmptyImageData

\* An entry written at hour 0 is read at hour 24 exactly: the call goes to
\* the provider and replaces it.
C16_Witness ==
    /\ cacheCall.called /\ cacheCall.fn = "analyzeImage"
    /\ cacheCall.service = "VisionService"
    /\ cacheCall.before.cached
    /\ cacheCall.at - cacheCall.before.timestamp = Hours(24)
    /\ ~cacheCall.analysis.hit
    /\ cacheCall.analysis.remote > 0
    /\ cacheCall.analysis.write


\* C17: an entry of ImageComparisonService's cache keeps its labels,
\* objects, web entities and colours for as long as analyzeImage does not
\* replace it: no step that leaves the entry's timestamp alone changes the
\* data the entry holds.
C17_CachedSignatureImmutable ==
    [][\A url \in NormalizedUrls :
          (icCache[url].cached /\ icCache'[url].timestamp = icCache[url].timestamp)
              => icCache'[url].data = icCache[url].data]_vars


----------------------------------------------------------------------------
\* Properties of a run of AIMatchingService.findMatches (SpecAIRunFair)

\* C18: every findMatches run returns its list, whether or not the
\* providers answer: the timeouts the code sets on its remote calls are
\* enough to carry the run to its return.
C18_EveryRunReturns == <>(aiRun.pc = "returned")


----------------------------------------------------------------------------
\* Properties of resolution among the item handlers (SpecResolve)

\* C20: isResolved only ever goes from false to true: no request of
\* uploadItem, updateItem, resolveItem or the find-matches endpoint turns
\* a resolved item back, and no matching answers with an item that was
\* resolved when the request came in.
C20_ResolvedIsPermanent ==
    [][ /\ \A k \in 1..Len(items) :
              items[k].isResolved => (k <= Len(items') /\ items'[k].isResolved)
        /\ \A j \in 1..Len(response'.matchItems) :
              LET id == response'.matchItems[j]
              IN  id <= Len(items) => ~items[id].isResolved ]_vars

\* An item is uploaded and resolved, and an item of the opposite type with
\* the same category and location is uploaded afterwards: the upload is
\* answered with no match.
C20_Witness ==
    /\ Len(items) = 2
    /\ items[1].isResolved /\ ~items[2].isResolved
    /\ items[1].itemType # items[2].itemType
    /\ items[1].category = items[2].category
    /\ items[1].location = items[2].location
    /\ response.status = 201
    /\ response.matchItems = <<>>


(***************************************************************************)
(* Properties of the handlers of one stored item (SpecOwner).              *)
(***************************************************************************)
\* The step is a request to one of the handlers of a stored item.
Handled(handler) ==
    requests' = requests + 1 /\ response'.request.handler = handler

\* C21: after resolveItem answers 200 for an item whose matchedItemId names
\* a stored item, that item and the matched item both have isResolved =
\* true; when the item has no matched item, the only change to the
\* collection is the isResolved of that item.
C21_ResolveCascades ==
    [][(Handled("resolveItem") /\ response'.status = 200) =>
          LET k == response'.request.id
              matched == response'.request.matched
          IN  /\ Len(items') = Len(items)
              /\ items'[k].isResolved
              /\ matched # 0 => items'[matched].isResolved
              /\ matched = 0 => items' = [items EXCEPT ![k].isResolved = TRUE]]_vars

\* A resolve answered 200 for an item with a matched item of another owner.
C21_Witness ==
    /\ requests = 1
    /\ response.status = 200 /\ response.request.handler = "resolveItem"
    /\ response.request.matched \notin {0, response.request.id}
    /\ items[response.request.id].isResolved
    /\ items[response.request.matched].isResolved
    /\ items[response.request.matched].userId # response.request.userId

\* C30: a request to resolveItem by a user who owns neither the item nor
\* its matched item, and a request to updateItem or deleteItem by a user
\* who does not own the item, is answered 403, and 404 when the item is not
\* stored; a request answered 403 or 404 leaves the items and the
\* notifications as they were.
C30_RefusedRequestChangesNothing ==
    [][\A handler \in {"resolveItem", "updateItem", "deleteItem"} :
          Handled(handler) =>
             LET request == response'.request
                 stranger ==
                    /\ request.id # 0
                    /\ items[request.id].userId # request.userId
                    /\ request.matched # 0 =>
                          items[request.matched].userId # request.userId
             IN  /\ request.id = 0 => response'.status = 404
                 /\ stranger => response'.status = 403
                 /\ response'.status \in {403, 404} =>
                       items' = items /\ notificationDb' = notificationDb]_vars

\* A delete by a user who does not own the item was answered 403 with both
\* items still stored.
C30_Witness ==
    /\ response.status = 403 /\ response.request.handler = "deleteItem"
    /\ Len(items) = MaxItems
    /\ items[response.request.id].userId # response.request.userId


\* The candidate filter on pool entry i of the run: it returned true.
Rejected(i) ==
    LET skip == shouldSkipComparison(LostOf(mTarget, mPool[i]), FoundOf(mTarget, mPool[i]))
    IN  ~skip.threw /\ skip.value

\* C23: the candidate filter runs before any provider call: for a pair that
\* shouldSkipComparison rejects, as one whose found item is dated before
\* the lost one, no compareDescriptions, compareImages or evaluateMatch
\* call is issued and no score is computed, on either path.
C23_RejectedPairNeverAnalysed ==
    mRun.done =>
        \A i \in 1..Len(mPool) :
            Rejected(i) =>
                /\ i \notin mRun.compared \cup mRun.scored \cup ResultIdx
                /\ \A e \in mRun.scoreOf : e[1] # i

\* A run on the AI path whose pool holds a found item dated before the lost
\* target, which was left alone, and a candidate that was analysed.
C23_Witness ==
    /\ mRun.done /\ mRun.path = "ai" /\ mTarget.itemType = "lost"
    /\ \E i \in 1..Len(mPool) :
          /\ mPool[i].itemType = "found" /\ ~mPool[i].isResolved
          /\ mPool[i].timestamp # NoTimestamp /\ mTarget.timestamp # NoTimestamp
          /\ mPool[i].timestamp < mTarget.timestamp
          /\ Rejected(i) /\ i \notin mRun.compared
    /\ mRun.compared # {}


(***************************************************************************)
(* Properties of the notification attempts of the handlers (SpecUpload).   *)
(***************************************************************************)
\* The attempt was dropped by the cooldown guard.
Suppressed(call) == call.ready /\ ~call.delivered

RecordsOf(userId) ==
    Cardinality({k \in 1..Len(notificationDb) : notificationDb[k].userId = userId})

\* The attempts for the user that emitted: each stores one record through
\* createNotification.
Delivered(userId) ==
    {k \in 1..Len(emitCalls) : emitCalls[k].userId = userId /\ emitCalls[k].delivered}

\* The attempts of uploadItem for the user that the cooldown did not drop:
\* the handler stores one record of its own after each.
NotDropped(userId) ==
    {k \in 1..Len(emitCalls) :
        /\ emitCalls[k].userId = userId
        /\ emitCalls[k].source \in {"uploadItem:owner", "uploadItem:uploader"}
        /\ ~Suppressed(emitCalls[k])}

\* C24: a notification attempt that the cooldown suppresses has no effect:
\* it emits nothing, queues nothing and stores no notification record for
\* the user, so the records of a user are those of the attempts that were
\* not suppressed.
C24_SuppressedAttemptLeavesNothing ==
    \A userId \in Users :
        RecordsOf(userId) = Cardinality(Delivered(userId)) + Cardinality(NotDropped(userId))


(***************************************************************************)
(* Properties of calculateTextSimilarity (SpecSimilarity).                 *)
(***************************************************************************)
\* The set of the words of more than two characters of a text.
TokenSet(text) == SeqRange(LongWords(NormalizeText(text)))

\* C25: calculateTextSimilarity returns |intersection| / |union| of the two
\* token sets (the words of more than two characters), a value in [0, 1]
\* also when a token is repeated, and exactly 1 for two texts whose
\* normalized strings are identical.
C25_JaccardOfTokenSets ==
    icCall.called =>
        LET tokens1 == TokenSet(icCall.text1)
            tokens2 == TokenSet(icCall.text2)
            result == icCall.result
        IN  /\ 0 <= result.num /\ result.num <= result.den
            /\ NormalizeText(icCall.text1) = NormalizeText(icCall.text2)
                  /\ icCall.text1 # <<>> /\ icCall.text2 # <<>>
                  => result.num = result.den
            /\ tokens1 # {} /\ tokens2 # {}
                  => result.num * Cardinality(tokens1 \cup tokens2)
                        = Cardinality(tokens1 \cap tokens2) * result.den


(***************************************************************************)
(* Properties of the object corrections (SpecCorrection).                  *)
(***************************************************************************)
Names(objects) == [k \in 1..Len(objects) |-> objects[k].name]

\* The name is among the objects after the call and was not at that place
\* before it.
Introduced(name) ==
    \E k \in 1..Len(icCall.objects) :
        /\ icCall.objects[k].name = name
        /\ k > Len(icCall.data.objects) \/ icCall.data.objects[k].name # name

\* C26: postProcessAnalysisResult and the comparison-stage correction
\* rename an object to, or add, Loudspeaker, Headphone or Camera only when
\* a label, web entity or best-guess label of the analysis corroborates
\* it; otherwise the objects keep their names.
C26_CorrectionNeedsEvidence ==
    icCall.called =>
        /\ Introduced("Loudspeaker") => Evidence(icCall.data, SpeakerTerms) # <<>>
        /\ Introduced("Headphone") => Evidence(icCall.data, HeadphoneTerms) # <<>>
        /\ Introduced("Camera") => Evidence(icCall.data, CameraTerms) # <<>>
        /\ ( /\ Evidence(icCall.data, SpeakerTerms) = <<>>
             /\ Evidence(icCall.data, HeadphoneTerms) = <<>>
             /\ Evidence(icCall.data, CameraTerms) = <<>> )
              => Names(icCall.objects) = Names(icCall.data.objects)


\* The analysis failed: it is no cache hit and returned null (VisionService)
\* or the empty image data (ImageComparisonService).
Failed(call) ==
    /\ ~call.analysis.hit
    /\ \/ call.analysis.isNull
       \/ call.service = "ImageComparisonService" /\ call.analysis.data = EmptyImageData

ConcurrentEmits(userId, at) ==
    {k \in 1..Len(roots) :
        roots[k].userId = userId /\ roots[k].at = at /\ roots[k].ready}

\* C22: the check-then-set of emitNotification is atomic: of the concurrent
\* emitNotification calls for one user, the first of which finds no open
\* window, exactly one passes the guard and emits, however their steps
\* interleave.
C22_OnePassesTheGuard ==
    \A first \in 1..Len(roots) :
        LET calls == ConcurrentEmits(roots[first].userId, roots[first].at)
        IN  (first \in calls /\ ~roots[first].open) =>
                Cardinality({k \in calls : roots[k].emitted > 0}) = 1

\* Three emitNotification calls for one user came in together with no
\* window open, and the save of the one that emitted has resolved.
C22_Witness ==
    /\ Len(roots) = 3 /\ tasks = <<>>
    /\ \A k \in 1..3 : roots[k] = [roots[1] EXCEPT !.open = roots[k].open,
                                                   !.emitted = roots[k].emitted,
                                                   !.records = roots[k].records]
    /\ roots[1].ready /\ ~roots[1].open
    /\ roots[1].emitted = 1 /\ roots[1].records = 1
    /\ roots[2].emitted = 0 /\ roots[3].emitted = 0

\* The createNotification calls made for the handler's call that await
\* their save.
Pending(root) == {i \in 1..Len(tasks) : tasks[i].root = root}

\* C27: the calls that emitNotification and createNotification make to each
\* other come to an end, and one createNotification call stores exactly
\* one notification record: a handler's emitNotification call makes at most
\* one createNotification call, and that call either awaits its save, or
\* has stored one record, or had its save rejected; the emitNotification
\* it calls after the save starts no further createNotification.
C27_OneRecordPerCreate ==
    \A k \in 1..Len(roots) :
        /\ roots[k].emitted <= 1
        /\ Cardinality(Pending(k)) + roots[k].records + roots[k].rejected
              = roots[k].emitted

\* A createNotification call stored its record, called emitNotification,
\* and nothing awaits a save any more.
C27_Witness ==
    /\ tasks = <<>> /\ Len(roots) = 1
    /\ roots[1].emitted = 1 /\ roots[1].records = 1 /\ roots[1].rejected = 0
    /\ Len(notificationDb) = 1 /\ Len(socketEmits) = 1

(***************************************************************************)
(* Properties of the refresh branch of verifyToken (SpecRefresh).          *)
(***************************************************************************)
\* A request was authenticated by this refresh token.
Redeemed(token) ==
    \E j \in 1..Len(authReqs) :
        authReqs[j].presented = token /\ authReqs[j].refreshed

\* The request was answered in this step.
Answered(i) == authReqs[i].pc # "done" /\ authReqs'[i].pc = "done"

====
